---- MODULE Spec2Model ----
(***************************************************************************)
(* The exchange tick engine of alator/rotala: UistV1 (order buffer, order  *)
(* book, trade log, clock) and the backtest registry AppState.             *)
(*                                                                         *)
(* Option<T> is modelled as a sequence: <<>> is None, <<x>> is Some(x).    *)
(* Prices and share counts are integers (the tests' 101.00, 25.0, ...).    *)
(* Fields named seq are history fields: the arrival number of the order an *)
(* Order or a Trade stems from.  No operation of the program reads them.   *)
(***************************************************************************)
EXTENDS Integers, Sequences, FiniteSets, TLC

\* Total number of insert_order calls explored on one engine.
MaxOrders == 3

----------------------------------------------------------------------------
(* Option<T> and its derived ordering (None < Some(x)).                    *)

None == <<>>

Some(x) == <<x>>

\* A comparison written < where the code has <=
OptLeStrict(a, b) == IF b = None THEN FALSE ELSE IF a = None THEN TRUE ELSE a[1] < b[1]

\* A comparison written > where the code has >=
OptGeStrict(a, b) == IF a = None THEN FALSE ELSE IF b = None THEN TRUE ELSE a[1] > b[1]

\* a <= b on Option<f64>, as derived PartialOrd orders it
OptLe(a, b) == IF a = None THEN TRUE ELSE IF b = None THEN FALSE ELSE a[1] <= b[1]

\* a >= b on Option<f64>
OptGe(a, b) == IF b = None THEN TRUE ELSE IF a = None THEN FALSE ELSE a[1] >= b[1]

----------------------------------------------------------------------------
(* Datasets: the quote stores and clocks the tests build.                  *)

UistQuote(bid, ask, date, symbol) ==
    [bid |-> bid, ask |-> ask, date |-> date, symbol |-> symbol]

\* setup(): quotes for ABC on every second 100..102
FakeQuotes ==
    << UistQuote(101, 102, 100, "ABC"),
       UistQuote(102, 103, 101, "ABC"),
       UistQuote(105, 106, 102, "ABC") >>

\* test_that_order_with_missing_price_executes_later: no quote at 101
GapQuotes ==
    << UistQuote(101, 102, 100, "ABC"),
       UistQuote(105, 106, 102, "ABC") >>

DatasetNames == {"FAKE", "GAP"}

Quotes(name) == IF name = "FAKE" THEN FakeQuotes ELSE GapQuotes

\* The clock built with Frequency::Second: every second from the first to
\* the last quote date.
ClockDates(name) == <<100, 101, 102>>

\* Penelope::get_quote: the quote of the symbol at the date, if any
GetQuote(name, date, symbol) ==
    LET qs == Quotes(name)
        hits == {i \in 1..Len(qs) : qs[i].date = date /\ qs[i].symbol = symbol}
    IN  IF hits = {} THEN None
        ELSE Some(qs[CHOOSE i \in hits : \A j \in hits : i <= j])

\* Penelope::get_quotes: all quotes at the date, None if the date has none
GetQuotes(name, date) ==
    LET qs == SelectSeq(Quotes(name), LAMBDA q : q.date = date)
    IN  IF qs = <<>> THEN None ELSE Some(qs)

----------------------------------------------------------------------------
(* DefaultPriceSource (crates/alator input) and TimeSeries (series)        *)

MaxQuotes == 3

MaxPoints == 3

\* Quote::new
QuoteNew(bid, ask, date, symbol) ==
    [bid |-> bid, ask |-> ask, date |-> date, symbol |-> symbol]

\* DefaultPriceSource::new: the map from dates to quotes is empty
SourceNew == [d \in {} |-> <<>>]

\* DefaultPriceSource::add_quotes: the quote is pushed at the back of the
\* Vec of its date; a date not indexed yet gets a Vec with the one quote
SourceAddQuotes(source, bid, ask, date, symbol) ==
    LET quote == QuoteNew(bid, ask, date, symbol)
    IN  IF date \in DOMAIN source
        THEN [source EXCEPT ![date] = Append(@, quote)]
        ELSE source @@ (date :> <<quote>>)

\* DefaultPriceSource::get_quote: the Vec of the clock's date is walked from
\* the front and the first quote with the symbol is returned
SourceGetQuote(source, curr_date, symbol) ==
    IF curr_date \in DOMAIN source
    THEN LET quotes == source[curr_date]
             hits == {i \in 1..Len(quotes) : quotes[i].symbol = symbol}
         IN  IF hits = {} THEN None
             ELSE Some(quotes[CHOOSE i \in hits : \A j \in hits : i <= j])
    ELSE None

\* DefaultPriceSource::get_quotes: the Vec of the clock's date, if indexed
SourceGetQuotes(source, curr_date) ==
    IF curr_date \in DOMAIN source THEN Some(source[curr_date]) ELSE None

\* TimeSeries::new: an index handed in is taken as it is; without one the
\* index is the range 0..values.len() - 1, which ends before its upper end
TimeSeriesNew(index, values) ==
    IF index # None
    THEN [index |-> index[1], values |-> values]
    ELSE IF Len(values) = 0
         THEN [index |-> <<>>, values |-> values]
         ELSE [index |-> [k \in 1..(Len(values) - 1) |-> k - 1], values |-> values]

\* TimeSeries::append: with an idx both Vecs get their element; without one
\* the index gets its last element plus one, or 0 when it is empty
TimeSeriesAppend(ts, idx, value) ==
    IF idx # None
    THEN [index |-> Append(ts.index, idx[1]), values |-> Append(ts.values, value)]
    ELSE [index |-> Append(ts.index,
                           IF ts.index = <<>> THEN 0
                           ELSE ts.index[Len(ts.index)] + 1),
          values |-> Append(ts.values, value)]

----------------------------------------------------------------------------
(* Clock                                                                   *)

ClockNow(name, pos) == ClockDates(name)[pos]

ClockHasNext(name, pos) == pos < Len(ClockDates(name))

\* Clock::tick advances to the next date and fails if the clock is exhausted
ClockTickFails(name, pos) == ~ClockHasNext(name, pos)

----------------------------------------------------------------------------
(* Orders and trades                                                       *)

SellTypes == {"MarketSell", "LimitSell", "StopSell"}

BuyTypes == {"MarketBuy", "LimitBuy", "StopBuy"}

Order(order_type, symbol, shares, price) ==
    [order_id |-> None, order_type |-> order_type, symbol |-> symbol,
     shares |-> shares, price |-> price]

\* The orders a client submits: the constructors' market and delayed orders,
\* and deserialised delayed orders without a price.
OrderInputs ==
    {Order("MarketBuy", "ABC", 100, None), Order("MarketSell", "ABC", 100, None),
     Order("MarketBuy", "XYZ", 100, None)}
    \cup {Order(t, "ABC", 25, Some(104)) :
              t \in {"LimitBuy", "LimitSell", "StopBuy", "StopSell"}}
    \cup {Order(t, "ABC", 25, None) : t \in {"LimitSell", "StopBuy"}}

\* Limit and stop orders priced at and next to the quotes they meet at 101
\* (bid 102, ask 103): Order::limit_buy .. Order::stop_sell
PricedOrderInputs ==
    {Order("LimitBuy", "ABC", 25, Some(p)) : p \in {102, 103}}
    \cup {Order("LimitSell", "ABC", 25, Some(p)) : p \in {102, 103}}
    \cup {Order("StopBuy", "ABC", 25, Some(p)) : p \in {103, 104}}
    \cup {Order("StopSell", "ABC", 25, Some(p)) : p \in {101, 102}}

\* Market orders as a client posts them: Order is Deserialize, so the body may
\* leave order_id out or set it.  The orders that came with an id are of 50
\* shares.
ClientIdOrderInputs ==
    {Order(t, "ABC", 100, None) : t \in {"MarketBuy", "MarketSell"}}
    \cup {[Order(t, "ABC", 50, None) EXCEPT !.order_id = Some(id)] :
              t \in {"MarketBuy", "MarketSell"}, id \in {0, 1}}

Trade(symbol, value, quantity, date, typ, seq) ==
    [symbol |-> symbol, value |-> value, quantity |-> quantity, date |-> date,
     typ |-> typ, seq |-> seq]

----------------------------------------------------------------------------
(* UistV1::sort_order_buffer                                               *)

\* A closure with its two arms swapped
CompareBuysFirst(a, b) == IF a.order_type \in SellTypes THEN "Greater" ELSE "Less"

\* The closure handed to sort_by: it looks at its first argument only.
Compare(a, b) == IF a.order_type \in SellTypes THEN "Less" ELSE "Greater"

\* slice::sort_by on a short slice is an insertion sort that moves the
\* element at the tail left while is_less(tail, predecessor).
RECURSIVE InsertTail(_, _, _)
InsertTail(v, j, tail) ==
    IF j > 1 /\ Compare(tail, v[j - 1]) = "Less"
    THEN InsertTail([v EXCEPT ![j] = v[j - 1]], j - 1, tail)
    ELSE [v EXCEPT ![j] = tail]

RECURSIVE InsertionSort(_, _)
InsertionSort(v, i) ==
    IF i > Len(v) THEN v ELSE InsertionSort(InsertTail(v, i, v[i]), i + 1)

\* A tick that forgets to sort: the buffer goes to the book in arrival order
SortOrderBufferArrival(buffer) == buffer

SortOrderBuffer(buffer) == InsertionSort(buffer, 2)

----------------------------------------------------------------------------
(* OrderBook: a record [inner, last_inserted]                              *)

OrderBookNew == [inner |-> <<>>, last_inserted |-> 0]

\* Order::set_order_id
SetOrderId(order, id) == [order EXCEPT !.order_id = Some(id)]

\* An insert_order that takes the id from the length of the book instead of
\* the counter
BookInsertOrderByLen(book, order) ==
    LET stamped_order == SetOrderId(order, Len(book.inner))
    IN  [book |-> [inner |-> Append(book.inner, stamped_order),
                   last_inserted |-> book.last_inserted + 1],
         order |-> stamped_order]

\* An insert_order that pushes the clone under the counter and stamps the
\* caller's order after the counter was bumped
BookInsertOrderStampAfter(book, order) ==
    [book |-> [inner |-> Append(book.inner, SetOrderId(order, book.last_inserted)),
               last_inserted |-> book.last_inserted + 1],
     order |-> SetOrderId(order, book.last_inserted + 1)]

\* An insert_order that stamps only the orders that come without an id
BookInsertOrderKeepingId(book, order) ==
    LET stamped_order == IF order.order_id = None
                         THEN SetOrderId(order, book.last_inserted) ELSE order
    IN  [book |-> [inner |-> Append(book.inner, stamped_order),
                   last_inserted |-> book.last_inserted + 1],
         order |-> stamped_order]

\* An insert_order that bumps the counter by two
BookInsertOrderCountingTwice(book, order) ==
    LET stamped_order == SetOrderId(order, book.last_inserted)
    IN  [book |-> [inner |-> Append(book.inner, stamped_order),
                   last_inserted |-> book.last_inserted + 2],
         order |-> stamped_order]

\* OrderBook::insert_order: the order handed in is stamped with the counter,
\* a copy of it is appended, the counter is bumped
BookInsertOrder(book, order) ==
    LET stamped_order == SetOrderId(order, book.last_inserted)
    IN  [book |-> [inner |-> Append(book.inner, stamped_order),
                   last_inserted |-> book.last_inserted + 1],
         order |-> stamped_order]

\* The position of the first order with that id, 0 if there is none
DeletePosition(inner, delete_order_id) ==
    LET hits == {i \in 1..Len(inner) : inner[i].order_id = Some(delete_order_id)}
    IN  IF hits = {} THEN 0 ELSE CHOOSE i \in hits : \A j \in hits : i <= j

\* A removal that fills the gap with the last element (swap_remove_back)
RemoveAtSwap(s, position) ==
    [i \in 1..(Len(s) - 1) |-> IF i = position THEN s[Len(s)] ELSE s[i]]

RemoveAt(s, position) ==
    [i \in 1..(Len(s) - 1) |-> IF i < position THEN s[i] ELSE s[i + 1]]

\* A delete_order that falls back to the front of the queue when the id is
\* not found
BookDeleteOrderFront(book, delete_order_id) ==
    LET position == DeletePosition(book.inner, delete_order_id)
    IN  IF book.inner = <<>> THEN book
        ELSE IF position = 0 THEN [book EXCEPT !.inner = RemoveAt(book.inner, 1)]
        ELSE [book EXCEPT !.inner = RemoveAt(book.inner, position)]

\* OrderBook::delete_order
BookDeleteOrder(book, delete_order_id) ==
    LET position == DeletePosition(book.inner, delete_order_id)
    IN  IF position = 0 THEN book
        ELSE [book EXCEPT !.inner = RemoveAt(book.inner, position)]

\* An execute_buy that fills a priced order at its own price
ExecuteBuyAtOrderPrice(quote, order, date) ==
    LET trade_price == IF order.price = None THEN quote.ask ELSE order.price[1]
    IN  Trade(order.symbol, trade_price * order.shares, order.shares, date, "Buy",
              order.seq)

ExecuteBuy(quote, order, date) ==
    LET trade_price == quote.ask
    IN  Trade(order.symbol, trade_price * order.shares, order.shares, date, "Buy",
              order.seq)

\* An execute_sell that dates the trade with the second before
ExecuteSellDatedBefore(quote, order, date) ==
    LET trade_price == quote.bid
    IN  Trade(order.symbol, trade_price * order.shares, order.shares, date - 1, "Sell",
              order.seq)

\* An execute_sell that fills half of the order
ExecuteSellPartial(quote, order, date) ==
    LET trade_price == quote.bid
    IN  Trade(order.symbol, trade_price * (order.shares \div 2), order.shares \div 2,
              date, "Sell", order.seq)

ExecuteSell(quote, order, date) ==
    LET trade_price == quote.bid
    IN  Trade(order.symbol, trade_price * order.shares, order.shares, date, "Sell",
              order.seq)

\* A match whose MarketSell arm calls execute_buy
MatchOrderSellAsBuy(quote, order, date) ==
    CASE order.order_type \in {"MarketBuy", "MarketSell"} ->
            Some(ExecuteBuy(quote, order, date))
      [] order.order_type = "LimitBuy" ->
            IF OptGe(order.price, Some(quote.ask))
            THEN Some(ExecuteBuy(quote, order, date)) ELSE None
      [] order.order_type = "LimitSell" ->
            IF OptLe(order.price, Some(quote.bid))
            THEN Some(ExecuteSell(quote, order, date)) ELSE None
      [] order.order_type = "StopBuy" ->
            IF OptLe(order.price, Some(quote.ask))
            THEN Some(ExecuteBuy(quote, order, date)) ELSE None
      [] order.order_type = "StopSell" ->
            IF OptGe(order.price, Some(quote.bid))
            THEN Some(ExecuteSell(quote, order, date)) ELSE None

\* The match over order_type in execute_orders: Some(trade) or None
MatchOrder(quote, order, date) ==
    CASE order.order_type = "MarketBuy" -> Some(ExecuteBuy(quote, order, date))
      [] order.order_type = "MarketSell" -> Some(ExecuteSell(quote, order, date))
      [] order.order_type = "LimitBuy" ->
            IF OptGe(order.price, Some(quote.ask))
            THEN Some(ExecuteBuy(quote, order, date)) ELSE None
      [] order.order_type = "LimitSell" ->
            IF OptLe(order.price, Some(quote.bid))
            THEN Some(ExecuteSell(quote, order, date)) ELSE None
      [] order.order_type = "StopBuy" ->
            IF OptLe(order.price, Some(quote.ask))
            THEN Some(ExecuteBuy(quote, order, date)) ELSE None
      [] order.order_type = "StopSell" ->
            IF OptGe(order.price, Some(quote.bid))
            THEN Some(ExecuteSell(quote, order, date)) ELSE None

\* A walk that falls back to the symbol's latest earlier quote when the date
\* has none
OrderResultLastQuote(name, order, date) ==
    LET qs == Quotes(name)
        hits == {i \in 1..Len(qs) : qs[i].date <= date /\ qs[i].symbol = order.symbol}
    IN  IF hits = {} THEN None
        ELSE MatchOrder(qs[CHOOSE i \in hits : \A j \in hits : qs[j].date <= qs[i].date],
                        order, date)

\* The result of one order of the walk
OrderResult(name, order, date) ==
    LET quote == GetQuote(name, date, order.symbol)
    IN  IF quote = None THEN None ELSE MatchOrder(quote[1], order, date)

\* A walk that puts each new trade in front of the ones collected so far
RECURSIVE TradeResultsNewestFirst(_, _, _, _)
TradeResultsNewestFirst(name, inner, date, i) ==
    IF i > Len(inner) THEN <<>>
    ELSE TradeResultsNewestFirst(name, inner, date, i + 1)
         \o OrderResult(name, inner[i], date)

\* The walk of execute_orders over inner[i..]: the trades, in walk order
RECURSIVE TradeResults(_, _, _, _)
TradeResults(name, inner, date, i) ==
    IF i > Len(inner) THEN <<>>
    ELSE OrderResult(name, inner[i], date) \o TradeResults(name, inner, date, i + 1)

\* The walk of execute_orders over inner[i..]: the ids of the triggered orders
RECURSIVE CompletedOrderIds(_, _, _, _)
CompletedOrderIds(name, inner, date, i) ==
    IF i > Len(inner) THEN <<>>
    ELSE (IF OrderResult(name, inner[i], date) = None THEN <<>>
          ELSE <<inner[i].order_id[1]>>)
         \o CompletedOrderIds(name, inner, date, i + 1)

\* An execute_orders that forgets to remove the completed orders
DeleteAllKeeping(book, ids, i) == book

RECURSIVE DeleteAll(_, _, _)
DeleteAll(book, ids, i) ==
    IF i > Len(ids) THEN book ELSE DeleteAll(BookDeleteOrder(book, ids[i]), ids, i + 1)

\* An execute_orders that drops every order it walked, triggered or not
ExecuteOrdersClearing(book, date, name) ==
    [book |-> [book EXCEPT !.inner = <<>>],
     trades |-> TradeResults(name, book.inner, date, 1)]

\* OrderBook::execute_orders: the book afterwards and the trades returned
ExecuteOrders(book, date, name) ==
    [book |-> DeleteAll(book, CompletedOrderIds(name, book.inner, date, 1), 1),
     trades |-> TradeResults(name, book.inner, date, 1)]

\* The loop of tick over order_buffer.iter_mut(): the book afterwards and the
\* buffer, whose orders now carry the ids they were stamped with
RECURSIVE InsertAll(_, _, _)
InsertAll(book, orders, i) ==
    IF i > Len(orders) THEN [book |-> book, orders |-> orders]
    ELSE LET r == BookInsertOrder(book, orders[i])
         IN  InsertAll(r.book, [orders EXCEPT ![i] = r.order], i + 1)

\* A tick that reads clock.now() before clock.tick()
ExecutionDateBeforeTick(name, pos) == ClockNow(name, pos)

\* clock.tick() followed by clock.now(): the date the book is executed at
ExecutionDate(name, pos) == ClockNow(name, pos + 1)

\* A tick that clones the buffer instead of taking it
MemTakeClone(buffer) == [taken |-> buffer, left |-> buffer]

\* std::mem::take(&mut self.order_buffer): what is returned, what is left
MemTake(buffer) == [taken |-> buffer, left |-> <<>>]

\* A fetch_trades that starts one entry late
FetchTradesFromNext(log, from) == SubSeq(log, from + 2, Len(log))

\* SingleExchange::fetch_trades: &self.trade_log[from..], for from <= len
FetchTrades(log, from) == SubSeq(log, from + 1, Len(log))

----------------------------------------------------------------------------
(* UistV1 as a value: the engine a Mutex<UistV1> of the server holds        *)

\* UistV1::new
UistNew == [clock |-> 1, orderbook |-> OrderBookNew, trade_log |-> <<>>,
            order_buffer |-> <<>>]

\* UistV1::insert_order
UistInsertOrder(engine, order) ==
    [engine EXCEPT !.order_buffer = Append(@, order)]

\* UistV1::delete_order
UistDeleteOrder(engine, order_id) ==
    [engine EXCEPT !.orderbook = BookDeleteOrder(@, order_id)]

\* UistV1::tick as one whole call: the engine afterwards and the tuple returned
UistTick(engine, name) ==
    LET sorted == SortOrderBuffer(engine.order_buffer)
        ins == InsertAll(engine.orderbook, sorted, 1)
        now == ExecutionDate(name, engine.clock)
        executed == ExecuteOrders(ins.book, now, name)
        took == MemTake(ins.orders)
    IN  [engine |-> [clock |-> engine.clock + 1,
                     orderbook |-> executed.book,
                     trade_log |-> engine.trade_log \o executed.trades,
                     order_buffer |-> took.left],
         res |-> [has_next |-> ClockHasNext(name, engine.clock + 1),
                  executed_trades |-> executed.trades,
                  inserted_orders |-> took.taken]]

\* The threads that run request handlers of one server
Threads == {"t1", "t2"}

\* The actix workers of one server process; each runs the application factory
Workers == {"w1", "w2"}

\* The orders clients post to the server
ServerOrderInputs ==
    {o \in OrderInputs : o.symbol = "ABC" /\ o.order_type \in {"MarketBuy", "MarketSell"}}

\* A Mutex that no thread holds
Unlocked == "unlocked"

\* lock() on a Mutex some thread may hold: that always returns at once
MutexFreeAlways(holder) == TRUE

\* app.lock(): the call returns when no thread holds the Mutex
MutexFree(holder) == holder = Unlocked

\* A handler thread between two requests
Idle == [at |-> "idle"]

----------------------------------------------------------------------------
(* UistV1                                                                  *)

VARIABLES
    dataset,        \* UistV1.dataset, fixes price_source and the clock's dates
    clock,          \* position of UistV1.clock in its dates
    orderbook,      \* UistV1.orderbook
    trade_log,      \* UistV1.trade_log
    order_buffer,   \* UistV1.order_buffer
    call,           \* the last call made on the engine and its arguments
    ret,            \* what the last tick returned
    inserted_at,    \* history: inserted_at[seq] is clock.now() at insert_order
    stamped         \* history: every order id handed out, in order

engine_vars == <<dataset, clock, orderbook, trade_log, order_buffer, call, ret,
                 inserted_at, stamped>>

VARIABLES
    backtests,      \* AppState.backtests: BacktestId -> BacktestState
    last,           \* AppState.last
    max_returned,   \* history: the greatest id a session-creating call returned
    reg_orders      \* history: the number of insert_order calls accepted

reg_vars == <<backtests, last, max_returned, reg_orders>>

VARIABLES
    mutex,          \* the thread that holds the Mutex around the engine, if any
    threads,        \* per handler thread: its request and its position in it
    engines,        \* per worker: the engine its application instance holds
    accepted        \* history: the number of orders the workers accepted

srv_vars == <<mutex, threads, engines, accepted>>

VARIABLES
    price_source,   \* DefaultPriceSource.inner.0: date -> the quotes pushed for it
    added,          \* history: the quotes add_quotes was called with, in call order
    timeseries      \* a TimeSeries: its index and its values

lib_vars == <<price_source, added, timeseries>>

vars == <<engine_vars, reg_vars, srv_vars, lib_vars>>

Now == ClockNow(dataset, clock)

NoRet == [has_next |-> TRUE, executed_trades |-> <<>>, inserted_orders |-> <<>>]

\* UistV1::new
EngineInit ==
    /\ dataset \in DatasetNames
    /\ clock = 1
    /\ orderbook = OrderBookNew
    /\ trade_log = <<>>
    /\ order_buffer = <<>>
    /\ call = [op |-> "new"]
    /\ ret = NoRet
    /\ inserted_at = <<>>
    /\ stamped = <<>>

\* AppState::create
RegCreate ==
    /\ backtests = <<>>
    /\ last = 0
    /\ max_returned = 0
    /\ reg_orders = 0

\* HttpServer::new(factory).run(): no request is in flight, and every worker
\* has run the factory, which builds a new engine
ServerStart ==
    /\ mutex = Unlocked
    /\ threads = [t \in Threads |-> Idle]
    /\ engines = [w \in Workers |-> UistNew]
    /\ accepted = 0

\* DefaultPriceSource::new: no date is indexed
SourceStart ==
    /\ price_source = SourceNew
    /\ added = <<>>

\* TimeSeries::new(None, Vec::new())
SeriesStart == timeseries = TimeSeriesNew(None, <<>>)

Init == EngineInit /\ RegCreate /\ ServerStart /\ SourceStart /\ SeriesStart

\* An insert_order that hands the order to the book at once
InsertOrderIntoBook ==
    /\ Len(inserted_at) < MaxOrders
    /\ \E o \in OrderInputs :
          LET r == BookInsertOrder(orderbook, o @@ [seq |-> Len(inserted_at) + 1])
          IN  /\ orderbook' = r.book
              /\ stamped' = Append(stamped, r.order.order_id[1])
              /\ call' = [op |-> "insert_order"]
    /\ inserted_at' = Append(inserted_at, Now)
    /\ UNCHANGED <<dataset, clock, order_buffer, trade_log, ret>>
    /\ UNCHANGED <<reg_vars, srv_vars, lib_vars>>

\* UistV1::insert_order
InsertOrder ==
    /\ Len(inserted_at) < MaxOrders
    /\ \E o \in OrderInputs :
          /\ order_buffer' = Append(order_buffer, o @@ [seq |-> Len(inserted_at) + 1])
          /\ call' = [op |-> "insert_order"]
    /\ inserted_at' = Append(inserted_at, Now)
    /\ UNCHANGED <<dataset, clock, orderbook, trade_log, ret, stamped>>
    /\ UNCHANGED <<reg_vars, srv_vars, lib_vars>>

\* A delete_order that also drops the buffered orders that carry the id
DeleteOrderAlsoBuffered ==
    /\ \E id \in 0..(MaxOrders - 1) :
          /\ orderbook' = BookDeleteOrder(orderbook, id)
          /\ order_buffer' = SelectSeq(order_buffer, LAMBDA o : o.order_id # Some(id))
          /\ call' = [op |-> "delete_order",
                       found |-> DeletePosition(orderbook.inner, id) # 0]
    /\ UNCHANGED <<dataset, clock, trade_log, ret, inserted_at, stamped>>
    /\ UNCHANGED <<reg_vars, srv_vars, lib_vars>>

\* UistV1::delete_order
DeleteOrder ==
    /\ \E id \in 0..(MaxOrders - 1) :
          /\ orderbook' = BookDeleteOrder(orderbook, id)
          /\ call' = [op |-> "delete_order",
                       found |-> DeletePosition(orderbook.inner, id) # 0]
    /\ UNCHANGED <<dataset, clock, trade_log, order_buffer, ret, inserted_at, stamped>>
    /\ UNCHANGED <<reg_vars, srv_vars, lib_vars>>

\* A tick that keeps only its own trades in the log
TickOverwritingLog ==
    /\ ClockHasNext(dataset, clock)
    /\ LET sorted == SortOrderBuffer(order_buffer)
           ins == InsertAll(orderbook, sorted, 1)
           now == ExecutionDate(dataset, clock)
           executed == ExecuteOrders(ins.book, now, dataset)
           took == MemTake(ins.orders)
       IN  /\ clock' = clock + 1
           /\ orderbook' = executed.book
           /\ trade_log' = executed.trades
           /\ order_buffer' = took.left
           /\ ret' = [has_next |-> ClockHasNext(dataset, clock + 1),
                      executed_trades |-> executed.trades,
                      inserted_orders |-> took.taken]
           /\ stamped' = stamped \o [i \in 1..Len(ins.orders) |->
                                         ins.orders[i].order_id[1]]
    /\ call' = [op |-> "tick"]
    /\ UNCHANGED <<dataset, inserted_at>>
    /\ UNCHANGED <<reg_vars, srv_vars, lib_vars>>

\* A tick that puts its trades in front of the log
TickPrependingLog ==
    /\ ClockHasNext(dataset, clock)
    /\ LET sorted == SortOrderBuffer(order_buffer)
           ins == InsertAll(orderbook, sorted, 1)
           now == ExecutionDate(dataset, clock)
           executed == ExecuteOrders(ins.book, now, dataset)
           took == MemTake(ins.orders)
       IN  /\ clock' = clock + 1
           /\ orderbook' = executed.book
           /\ trade_log' = executed.trades \o trade_log
           /\ order_buffer' = took.left
           /\ ret' = [has_next |-> ClockHasNext(dataset, clock + 1),
                      executed_trades |-> executed.trades,
                      inserted_orders |-> took.taken]
           /\ stamped' = stamped \o [i \in 1..Len(ins.orders) |->
                                         ins.orders[i].order_id[1]]
    /\ call' = [op |-> "tick"]
    /\ UNCHANGED <<dataset, inserted_at>>
    /\ UNCHANGED <<reg_vars, srv_vars, lib_vars>>

\* UistV1::tick.  Clock::tick fails on an exhausted clock, before the engine
\* is touched.
Tick ==
    /\ ClockHasNext(dataset, clock)
    /\ LET sorted == SortOrderBuffer(order_buffer)
           ins == InsertAll(orderbook, sorted, 1)
           now == ExecutionDate(dataset, clock)
           executed == ExecuteOrders(ins.book, now, dataset)
           took == MemTake(ins.orders)
       IN  /\ clock' = clock + 1
           /\ orderbook' = executed.book
           /\ trade_log' = trade_log \o executed.trades
           /\ order_buffer' = took.left
           /\ ret' = [has_next |-> ClockHasNext(dataset, clock + 1),
                      executed_trades |-> executed.trades,
                      inserted_orders |-> took.taken]
           /\ stamped' = stamped \o [i \in 1..Len(ins.orders) |->
                                         ins.orders[i].order_id[1]]
    /\ call' = [op |-> "tick"]
    /\ UNCHANGED <<dataset, inserted_at>>
    /\ UNCHANGED <<reg_vars, srv_vars, lib_vars>>

\* UistV1::tick on a clock that has no next date: tick has no test of
\* has_next, its first statement is clock.tick(), and that call fails; no
\* statement of tick after it runs and the caller gets no result tuple.
TickExhausted ==
    /\ ClockTickFails(dataset, clock)
    /\ call' = [op |-> "tick_failed"]
    /\ UNCHANGED <<dataset, clock, orderbook, trade_log, order_buffer, ret,
                   inserted_at, stamped>>
    /\ UNCHANGED <<reg_vars, srv_vars, lib_vars>>

Next == InsertOrder \/ DeleteOrder \/ Tick \/ TickExhausted

Spec == Init /\ [][Next]_vars

\* UistV1::insert_order with a limit or stop order built by the constructors
InsertPricedOrder ==
    /\ Len(inserted_at) < MaxOrders
    /\ \E o \in PricedOrderInputs :
          /\ order_buffer' = Append(order_buffer, o @@ [seq |-> Len(inserted_at) + 1])
          /\ call' = [op |-> "insert_order"]
    /\ inserted_at' = Append(inserted_at, Now)
    /\ UNCHANGED <<dataset, clock, orderbook, trade_log, ret, stamped>>
    /\ UNCHANGED <<reg_vars, srv_vars, lib_vars>>

NextPriced == InsertPricedOrder \/ DeleteOrder \/ Tick \/ TickExhausted

\* The engine fed with priced orders only
SpecPriced == Init /\ [][NextPriced]_vars

\* UistV1::insert_order with an order as the client's request body gave it,
\* with or without an order_id
InsertClientOrder ==
    /\ Len(inserted_at) < MaxOrders
    /\ \E o \in ClientIdOrderInputs :
          /\ order_buffer' = Append(order_buffer, o @@ [seq |-> Len(inserted_at) + 1])
          /\ call' = [op |-> "insert_order"]
    /\ inserted_at' = Append(inserted_at, Now)
    /\ UNCHANGED <<dataset, clock, orderbook, trade_log, ret, stamped>>
    /\ UNCHANGED <<reg_vars, srv_vars, lib_vars>>

NextClientIds == InsertClientOrder \/ DeleteOrder \/ Tick \/ TickExhausted

\* The engine fed with orders whose order_id the client may have set
SpecClientIds == Init /\ [][NextClientIds]_vars

----------------------------------------------------------------------------
(* AppState: the registry of backtests                                     *)

\* Session-creating calls are explored while AppState.last is below this.
MaxSessions == 2

\* Number of insert_order calls explored on one registry.
MaxRegOrders == 2

\* AppState.datasets: the names registered at start-up
RegisteredNames == {"GAP"}

\* The names a client passes to init: the registered ones and one that is not
InitNames == RegisteredNames \cup {"NODATA"}

\* The session ids a client names: those that can exist and some that cannot.
BacktestIds == 0..MaxSessions

\* The orders clients submit to a backtest.
RegOrderInputs == {o \in OrderInputs : o.order_type = "MarketBuy"}

QuoteDates(name) == {Quotes(name)[i].date : i \in 1..Len(Quotes(name))}

\* Penelope::get_first_date
GetFirstDate(name) == CHOOSE d \in QuoteDates(name) : \A e \in QuoteDates(name) : d <= e

\* Penelope::get_next_date: the next date that has quotes; past the last date,
\* a date that has none.
GetNextDate(name, date) ==
    LET later == {d \in QuoteDates(name) : d > date}
    IN  IF later = {} THEN date + 1
        ELSE CHOOSE d \in later : \A e \in later : d <= e

\* JuraV1::new
JuraNew == [orderbook |-> OrderBookNew, trade_log |-> <<>>, order_buffer |-> <<>>]

\* JuraV1::insert_order
JuraInsertOrder(exchange, order) ==
    [exchange EXCEPT !.order_buffer = Append(@, order)]

\* JuraV1::delete_order
JuraDeleteOrder(exchange, asset, order_id) ==
    [exchange EXCEPT !.orderbook = BookDeleteOrder(@, order_id)]

\* JuraV1::tick(&quotes), the quotes being those of the dataset at the date:
\* the exchange afterwards and the (fills, inserted orders) returned
JuraTick(exchange, name, date) ==
    LET sorted == SortOrderBuffer(exchange.order_buffer)
        ins == InsertAll(exchange.orderbook, sorted, 1)
        executed == ExecuteOrders(ins.book, date, name)
        took == MemTake(ins.orders)
    IN  [exchange |-> [orderbook |-> executed.book,
                       trade_log |-> exchange.trade_log \o executed.trades,
                       order_buffer |-> took.left],
         res |-> <<executed.trades, took.taken>>]

BacktestState(id, date, exchange, dataset_name) ==
    [id |-> id, date |-> date, exchange |-> exchange, dataset_name |-> dataset_name]

\* HashMap::insert
MapInsert(map, key, value) ==
    [k \in DOMAIN map \cup {key} |-> IF k = key THEN value ELSE map[k]]

\* A tick that advances every backtest running on the dataset of the one named
AppTickByDataset(bts, backtest_id) ==
    IF /\ backtest_id \in DOMAIN bts
       /\ GetQuotes(bts[backtest_id].dataset_name, bts[backtest_id].date) # None
    THEN LET name == bts[backtest_id].dataset_name
             date == bts[backtest_id].date
             res == JuraTick(bts[backtest_id].exchange, name, date).res
         IN  [backtests |->
                 [k \in DOMAIN bts |->
                     IF bts[k].dataset_name = name /\ bts[k].date = date
                     THEN [bts[k] EXCEPT
                             !.exchange = JuraTick(bts[k].exchange, name, date).exchange,
                             !.date = GetNextDate(name, date)]
                     ELSE bts[k]],
              ret |-> Some(res)]
    ELSE [backtests |-> bts, ret |-> None]

\* AppState::tick: the map afterwards and the Option returned
AppTick(bts, backtest_id) ==
    IF /\ backtest_id \in DOMAIN bts
       /\ GetQuotes(bts[backtest_id].dataset_name, bts[backtest_id].date) # None
    THEN LET backtest == bts[backtest_id]
             next_date == GetNextDate(backtest.dataset_name, backtest.date)
             t == JuraTick(backtest.exchange, backtest.dataset_name, backtest.date)
         IN  [backtests |-> [bts EXCEPT ![backtest_id] =
                                [backtest EXCEPT !.exchange = t.exchange,
                                                 !.date = next_date]],
              ret |-> Some(t.res)]
    ELSE [backtests |-> bts, ret |-> None]

\* AppState::fetch_quotes
AppFetchQuotes(bts, backtest_id) ==
    IF backtest_id \in DOMAIN bts
    THEN GetQuotes(bts[backtest_id].dataset_name, bts[backtest_id].date)
    ELSE None

\* An insert_order that opens a session for an id the map does not hold
AppInsertOrderUpsert(bts, order, backtest_id) ==
    IF backtest_id \in DOMAIN bts
    THEN [backtests |-> [bts EXCEPT ![backtest_id].exchange =
                                        JuraInsertOrder(@, order)],
          ret |-> Some(<<>>)]
    ELSE [backtests |-> MapInsert(bts, backtest_id,
                                  BacktestState(backtest_id, 0,
                                                JuraInsertOrder(JuraNew, order), "")),
          ret |-> Some(<<>>)]

\* AppState::insert_order
AppInsertOrder(bts, order, backtest_id) ==
    IF backtest_id \in DOMAIN bts
    THEN [backtests |-> [bts EXCEPT ![backtest_id].exchange =
                                        JuraInsertOrder(@, order)],
          ret |-> Some(<<>>)]
    ELSE [backtests |-> bts, ret |-> None]

\* AppState::delete_order
AppDeleteOrder(bts, asset, order_id, backtest_id) ==
    IF backtest_id \in DOMAIN bts
    THEN [backtests |-> [bts EXCEPT ![backtest_id].exchange =
                                        JuraDeleteOrder(@, asset, order_id)],
          ret |-> Some(<<>>)]
    ELSE [backtests |-> bts, ret |-> None]

\* AppState::init: the map and the counter afterwards and the Option returned.
\* The counter is read and not written.
AppInit(bts, last_id, dataset_name) ==
    IF dataset_name \in RegisteredNames
    THEN LET new_id == last_id + 1
             backtest == BacktestState(new_id, GetFirstDate(dataset_name), JuraNew,
                                       dataset_name)
         IN  [backtests |-> MapInsert(bts, new_id, backtest), last |-> last_id,
              ret |-> Some(new_id)]
    ELSE [backtests |-> bts, last |-> last_id, ret |-> None]

\* A new_backtest that uses up the id it computed when the dataset is unknown
AppNewBacktestCounting(bts, last_id, dataset_name) ==
    LET new_id == last_id + 1
    IN  IF dataset_name \in RegisteredNames
        THEN LET backtest == BacktestState(new_id, GetFirstDate(dataset_name), JuraNew,
                                           dataset_name)
             IN  [backtests |-> MapInsert(bts, new_id, backtest), last |-> new_id,
                  ret |-> Some(new_id)]
        ELSE [backtests |-> bts, last |-> new_id, ret |-> None]

\* AppState::new_backtest
AppNewBacktest(bts, last_id, dataset_name) ==
    LET new_id == last_id + 1
    IN  IF dataset_name \in RegisteredNames
        THEN LET backtest == BacktestState(new_id, GetFirstDate(dataset_name), JuraNew,
                                           dataset_name)
             IN  [backtests |-> MapInsert(bts, new_id, backtest), last |-> new_id,
                  ret |-> Some(new_id)]
        ELSE [backtests |-> bts, last |-> last_id, ret |-> None]

\* ResponseError::status_code for JuraV1Error
StatusCode(err) ==
    CASE err = "UnknownBacktest" -> 400
      [] err = "UnknownDataset" -> 400

\* The handlers tick, delete_order, insert_order, fetch_quotes and info share
\* one shape: Ok(..) when the session map holds the id of the path, and
\* Err(JuraV1Error::UnknownBacktest) otherwise.
HandlerOutcome(bts, backtest_id) ==
    IF backtest_id \in DOMAIN bts
    THEN [ok |-> TRUE]
    ELSE [ok |-> FALSE, err |-> "UnknownBacktest", status |-> StatusCode("UnknownBacktest")]

\* The handler init: Ok(InitResponse) when the registry call behind it
\* returned Some(..), and Err(JuraV1Error::UnknownDataset) otherwise.
InitHandlerOutcome(returned) ==
    IF returned # None
    THEN [ok |-> TRUE, backtest_id |-> returned[1]]
    ELSE [ok |-> FALSE, err |-> "UnknownDataset", status |-> StatusCode("UnknownDataset")]

\* AppState::single
RegSingle ==
    /\ \E name \in RegisteredNames :
          backtests = MapInsert(<<>>, 0,
                                BacktestState(0, GetFirstDate(name), JuraNew, name))
    /\ last = 1
    /\ max_returned = 0
    /\ reg_orders = 0

InitReg ==
    /\ EngineInit /\ dataset = "FAKE" /\ (RegCreate \/ RegSingle) /\ ServerStart
    /\ SourceStart /\ SeriesStart

\* The greatest id returned so far, after a call that returned ret
MaxReturned(returned) ==
    IF returned # None /\ returned[1] > max_returned THEN returned[1] ELSE max_returned

\* A client calls AppState::init
RegInit ==
    /\ last < MaxSessions
    /\ \E dataset_name \in InitNames :
          LET r == AppInit(backtests, last, dataset_name)
          IN  /\ backtests' = r.backtests
              /\ last' = r.last
              /\ max_returned' = MaxReturned(r.ret)
    /\ UNCHANGED reg_orders
    /\ UNCHANGED <<engine_vars, srv_vars, lib_vars>>

\* A client calls AppState::new_backtest
RegNewBacktest ==
    /\ last < MaxSessions
    /\ \E dataset_name \in InitNames :
          LET r == AppNewBacktest(backtests, last, dataset_name)
          IN  /\ backtests' = r.backtests
              /\ last' = r.last
              /\ max_returned' = MaxReturned(r.ret)
    /\ UNCHANGED reg_orders
    /\ UNCHANGED <<engine_vars, srv_vars, lib_vars>>

\* A client calls AppState::tick
RegTick ==
    /\ \E backtest_id \in BacktestIds :
          backtests' = AppTick(backtests, backtest_id).backtests
    /\ UNCHANGED <<last, max_returned, reg_orders>>
    /\ UNCHANGED <<engine_vars, srv_vars, lib_vars>>

\* A client calls AppState::fetch_quotes, which takes &self: the caller gets
\* AppFetchQuotes(backtests, backtest_id) and nothing is written
RegFetchQuotes ==
    /\ UNCHANGED <<reg_vars, srv_vars, lib_vars>>
    /\ UNCHANGED <<engine_vars, srv_vars, lib_vars>>

\* A client calls AppState::insert_order
RegInsertOrder ==
    /\ reg_orders < MaxRegOrders
    /\ \E backtest_id \in BacktestIds, o \in RegOrderInputs :
          LET r == AppInsertOrder(backtests, o @@ [seq |-> reg_orders + 1], backtest_id)
          IN  /\ backtests' = r.backtests
              /\ reg_orders' = IF r.ret = None THEN reg_orders ELSE reg_orders + 1
    /\ UNCHANGED <<last, max_returned>>
    /\ UNCHANGED <<engine_vars, srv_vars, lib_vars>>

\* A client calls AppState::delete_order
RegDeleteOrder ==
    /\ \E backtest_id \in BacktestIds, order_id \in 0..(MaxRegOrders - 1) :
          backtests' = AppDeleteOrder(backtests, 0, order_id, backtest_id).backtests
    /\ UNCHANGED <<last, max_returned, reg_orders>>
    /\ UNCHANGED <<engine_vars, srv_vars, lib_vars>>

NextReg ==
    \/ RegInit
    \/ RegNewBacktest
    \/ RegTick
    \/ RegFetchQuotes
    \/ RegInsertOrder
    \/ RegDeleteOrder

SpecReg == InitReg /\ [][NextReg]_vars

----------------------------------------------------------------------------
(* Request handlers running in parallel on one Mutex<engine>               *)

\* The engine behind the Mutex, as the thread that locks it finds it
EngineState ==
    [clock |-> clock, orderbook |-> orderbook, trade_log |-> trade_log,
     order_buffer |-> order_buffer]

\* The requests clients send
Requests ==
    {[op |-> "tick"]}
    \cup {[op |-> "insert_order", order |-> o] : o \in ServerOrderInputs}
    \cup {[op |-> "delete_order", order_id |-> id] : id \in 0..(MaxOrders - 1)}

\* The number of insert_order requests that are in flight
InsertsInFlight ==
    Cardinality({t \in Threads : threads[t].at # "idle"
                                   /\ threads[t].req.op = "insert_order"})

\* A request arrives and a free thread starts its handler.  Clients send a
\* tick only while the last response had has_next.
Arrive(t) ==
    /\ threads[t].at = "idle"
    /\ \E req \in Requests :
          /\ req.op = "insert_order" => Len(inserted_at) + InsertsInFlight < MaxOrders
          /\ req.op = "tick" => ClockHasNext(dataset, clock)
          /\ threads' = [threads EXCEPT ![t] = [at |-> "lock", req |-> req]]
    /\ UNCHANGED <<mutex, engines, accepted>>
    /\ UNCHANGED <<engine_vars, reg_vars, lib_vars>>

\* let mut jura = app.lock().unwrap(): the first statement of every handler
Lock(t) ==
    /\ threads[t].at = "lock"
    /\ MutexFree(mutex)
    /\ mutex' = t
    /\ threads' = [threads EXCEPT ![t] =
                      [at |-> threads[t].req.op, req |-> threads[t].req,
                       found |-> EngineState]]
    /\ UNCHANGED <<engines, accepted>>
    /\ UNCHANGED <<engine_vars, reg_vars, lib_vars>>

\* The handler insert_order from the call of the engine to its return, where
\* the guard of the Mutex is dropped
HandleInsertOrder(t) ==
    /\ threads[t].at = "insert_order"
    /\ order_buffer' = Append(order_buffer,
                              threads[t].req.order @@ [seq |-> Len(inserted_at) + 1])
    /\ inserted_at' = Append(inserted_at, Now)
    /\ call' = [op |-> "insert_order"]
    /\ mutex' = Unlocked
    /\ threads' = [threads EXCEPT ![t] = Idle]
    /\ UNCHANGED <<dataset, clock, orderbook, trade_log, ret, stamped>>
    /\ UNCHANGED <<engines, accepted>>
    /\ UNCHANGED <<reg_vars, lib_vars>>

\* The handler delete_order from the call of the engine to its return
HandleDeleteOrder(t) ==
    /\ threads[t].at = "delete_order"
    /\ orderbook' = BookDeleteOrder(orderbook, threads[t].req.order_id)
    /\ call' = [op |-> "delete_order",
                 found |-> DeletePosition(orderbook.inner, threads[t].req.order_id) # 0]
    /\ mutex' = Unlocked
    /\ threads' = [threads EXCEPT ![t] = Idle]
    /\ UNCHANGED <<dataset, clock, trade_log, order_buffer, ret, inserted_at, stamped>>
    /\ UNCHANGED <<engines, accepted>>
    /\ UNCHANGED <<reg_vars, lib_vars>>

\* UistV1::tick, first statement: self.clock.tick()
TickClock(t) ==
    /\ threads[t].at = "tick"
    /\ ClockHasNext(dataset, clock)
    /\ clock' = clock + 1
    /\ threads' = [threads EXCEPT ![t].at = "tick_insert"]
    /\ UNCHANGED <<dataset, orderbook, trade_log, order_buffer, call, ret,
                   inserted_at, stamped>>
    /\ UNCHANGED <<mutex, engines, accepted>>
    /\ UNCHANGED <<reg_vars, lib_vars>>

\* UistV1::tick: sort_order_buffer and the loop over order_buffer.iter_mut(),
\* which stamps the buffered orders in place and puts a clone in the book
TickInsert(t) ==
    /\ threads[t].at = "tick_insert"
    /\ LET ins == InsertAll(orderbook, SortOrderBuffer(order_buffer), 1)
       IN  /\ orderbook' = ins.book
           /\ order_buffer' = ins.orders
    /\ threads' = [threads EXCEPT ![t].at = "tick_execute"]
    /\ UNCHANGED <<dataset, clock, trade_log, call, ret, inserted_at, stamped>>
    /\ UNCHANGED <<mutex, engines, accepted>>
    /\ UNCHANGED <<reg_vars, lib_vars>>

\* UistV1::tick: execute_orders at clock.now() and the loop that logs the
\* trades
TickExecute(t) ==
    /\ threads[t].at = "tick_execute"
    /\ LET executed == ExecuteOrders(orderbook, Now, dataset)
       IN  /\ orderbook' = executed.book
           /\ trade_log' = trade_log \o executed.trades
           /\ threads' = [threads EXCEPT ![t] =
                             [at |-> "tick_take", req |-> threads[t].req,
                              found |-> threads[t].found,
                              executed_trades |-> executed.trades]]
    /\ UNCHANGED <<dataset, clock, order_buffer, call, ret, inserted_at, stamped>>
    /\ UNCHANGED <<mutex, engines, accepted>>
    /\ UNCHANGED <<reg_vars, lib_vars>>

\* UistV1::tick: mem::take of the buffer and the tuple returned; the handler
\* builds the response and returns, which drops the guard of the Mutex
TickReturn(t) ==
    /\ threads[t].at = "tick_take"
    /\ LET took == MemTake(order_buffer)
       IN  /\ order_buffer' = took.left
           /\ ret' = [has_next |-> ClockHasNext(dataset, clock),
                      executed_trades |-> threads[t].executed_trades,
                      inserted_orders |-> took.taken]
    /\ call' = [op |-> "tick"]
    /\ mutex' = Unlocked
    /\ threads' = [threads EXCEPT ![t] = Idle]
    /\ UNCHANGED <<dataset, clock, orderbook, trade_log, inserted_at, stamped>>
    /\ UNCHANGED <<engines, accepted>>
    /\ UNCHANGED <<reg_vars, lib_vars>>

NextServer ==
    \E t \in Threads :
        \/ Arrive(t)
        \/ Lock(t)
        \/ HandleInsertOrder(t)
        \/ HandleDeleteOrder(t)
        \/ TickClock(t)
        \/ TickInsert(t)
        \/ TickExecute(t)
        \/ TickReturn(t)

\* One engine behind one Mutex, served by the handler threads
SpecServer == Init /\ [][NextServer]_vars

----------------------------------------------------------------------------
(* The workers of uist_server, each with the state its factory call built  *)

\* POST /insert_order, served by worker w
WorkerInsertOrder(w) ==
    /\ accepted < MaxOrders
    /\ \E o \in ServerOrderInputs :
          engines' = [engines EXCEPT ![w] =
                         UistInsertOrder(@, o @@ [seq |-> accepted + 1])]
    /\ accepted' = accepted + 1
    /\ UNCHANGED <<mutex, threads>>
    /\ UNCHANGED <<engine_vars, reg_vars, lib_vars>>

\* POST /delete_order, served by worker w
WorkerDeleteOrder(w) ==
    /\ \E id \in 0..(MaxOrders - 1) :
          engines' = [engines EXCEPT ![w] = UistDeleteOrder(@, id)]
    /\ UNCHANGED <<mutex, threads, accepted>>
    /\ UNCHANGED <<engine_vars, reg_vars, lib_vars>>

\* GET /tick, served by worker w
WorkerTick(w) ==
    /\ ClockHasNext(dataset, engines[w].clock)
    /\ engines' = [engines EXCEPT ![w] = UistTick(@, dataset).engine]
    /\ UNCHANGED <<mutex, threads, accepted>>
    /\ UNCHANGED <<engine_vars, reg_vars, lib_vars>>

NextWorkers ==
    \E w \in Workers :
        \/ WorkerInsertOrder(w)
        \/ WorkerDeleteOrder(w)
        \/ WorkerTick(w)

\* The server process of uist_server.rs
SpecWorkers == Init /\ [][NextWorkers]_vars

----------------------------------------------------------------------------
(* The engine driven by a strategy: examples/alator staticweight.rs        *)

\* The orders diff_brkr_against_target_weights hands to send_orders: market
\* orders, none, one or two at a time
StrategyOrders ==
    LET market == {o \in OrderInputs : o.order_type \in {"MarketBuy", "MarketSell"}}
    IN  {<<>>} \cup {<<o>> : o \in market}
               \cup {<<o, p>> : o \in market, p \in market}

\* send_orders: every order goes to the engine's insert_order
SendOrders(buffer, sent, first_seq) ==
    buffer \o [k \in 1..Len(sent) |-> sent[k] @@ [seq |-> first_seq + k]]

\* Strategy::init: the orders of the first rebalance are sent before run
StrategyInit ==
    /\ call.op = "new"
    /\ \E sent \in StrategyOrders :
          /\ Len(inserted_at) + Len(sent) <= MaxOrders
          /\ order_buffer' = SendOrders(order_buffer, sent, Len(inserted_at))
          /\ inserted_at' = inserted_at \o [k \in 1..Len(sent) |-> Now]
    /\ call' = [op |-> "init"]
    /\ UNCHANGED <<dataset, clock, orderbook, trade_log, ret, stamped>>
    /\ UNCHANGED <<reg_vars, srv_vars, lib_vars>>

\* An update that sends its orders without checking the broker
StrategyUpdateNoCheck ==
    /\ ClockHasNext(dataset, clock)
    /\ \E sent \in StrategyOrders :
          /\ Len(inserted_at) + Len(sent) <= MaxOrders
          /\ order_buffer' = SendOrders(order_buffer, sent, Len(inserted_at))
          /\ inserted_at' = inserted_at \o [k \in 1..Len(sent) |-> Now]
    /\ call' = [op |-> "update"]
    /\ UNCHANGED <<dataset, clock, orderbook, trade_log, ret, stamped>>
    /\ UNCHANGED <<reg_vars, srv_vars, lib_vars>>

\* One pass of the loop of StaticWeightStrategy::run: has_next holds, and
\* update runs: brkr.check() ticks the engine, whose clock the strategy's
\* handle shares, then the rebalance orders are sent at the new date.
StrategyUpdate ==
    /\ ClockHasNext(dataset, clock)
    /\ LET sorted == SortOrderBuffer(order_buffer)
           ins == InsertAll(orderbook, sorted, 1)
           now == ExecutionDate(dataset, clock)
           executed == ExecuteOrders(ins.book, now, dataset)
           took == MemTake(ins.orders)
       IN  /\ clock' = clock + 1
           /\ orderbook' = executed.book
           /\ trade_log' = trade_log \o executed.trades
           /\ ret' = [has_next |-> ClockHasNext(dataset, clock + 1),
                      executed_trades |-> executed.trades,
                      inserted_orders |-> took.taken]
           /\ stamped' = stamped \o [i \in 1..Len(ins.orders) |->
                                         ins.orders[i].order_id[1]]
           /\ \E sent \in StrategyOrders :
                 /\ Len(inserted_at) + Len(sent) <= MaxOrders
                 /\ order_buffer' = SendOrders(took.left, sent, Len(inserted_at))
                 /\ inserted_at' = inserted_at \o [k \in 1..Len(sent) |-> now]
    /\ call' = [op |-> "update"]
    /\ UNCHANGED dataset
    /\ UNCHANGED <<reg_vars, srv_vars, lib_vars>>

\* StaticWeightStrategy::run returns: has_next is false at the loop's test
StrategyRunReturns ==
    /\ ~ClockHasNext(dataset, clock)
    /\ call.op # "run_returned"
    /\ call' = [op |-> "run_returned"]
    /\ UNCHANGED <<dataset, clock, orderbook, trade_log, order_buffer, ret,
                   inserted_at, stamped>>
    /\ UNCHANGED <<reg_vars, srv_vars, lib_vars>>

NextDriver == StrategyInit \/ StrategyUpdate \/ StrategyRunReturns

\* A pass of the loop as the clock sees it: StrategyUpdate is the one
\* action of the driver that moves the clock
RunLoopPass == ClockHasNext(dataset, clock) /\ clock' = clock + 1

\* run is straight-line code on one thread: while the loop's test holds the
\* next pass is taken, and the return is taken when the test fails.
SpecDriver ==
    /\ Init
    /\ [][NextDriver]_vars
    /\ WF_clock(RunLoopPass)
    /\ WF_vars(StrategyRunReturns)

----------------------------------------------------------------------------
(* The price source and the time series on their own                       *)

\* A caller adds a quote: DefaultPriceSource::add_quotes
AddQuotes ==
    /\ Len(added) < MaxQuotes
    /\ \E bid \in {101, 105}, date \in {100, 101}, symbol \in {"ABC", "XYZ"} :
          /\ price_source' = SourceAddQuotes(price_source, bid, bid + 1, date, symbol)
          /\ added' = Append(added, QuoteNew(bid, bid + 1, date, symbol))
    /\ UNCHANGED <<engine_vars, reg_vars, srv_vars, timeseries>>

\* The owner of the clock the price source reads advances it: Clock::tick
SourceClockTick ==
    /\ ClockHasNext(dataset, clock)
    /\ clock' = clock + 1
    /\ UNCHANGED <<dataset, orderbook, trade_log, order_buffer, call, ret,
                   inserted_at, stamped>>
    /\ UNCHANGED <<reg_vars, srv_vars, lib_vars>>

NextQuotes == AddQuotes \/ SourceClockTick

SpecQuotes == Init /\ [][NextQuotes]_vars

\* TimeSeries::new called without an index, or with an index as long as the
\* values
InitSeries ==
    /\ EngineInit /\ RegCreate /\ ServerStart /\ SourceStart
    /\ \E values \in {<<>>, <<100>>, <<100, 105>>} :
       \E index \in {None, Some([k \in 1..Len(values) |-> 10 * k])} :
          timeseries = TimeSeriesNew(index, values)

\* TimeSeries::append
SeriesAppend ==
    /\ Len(timeseries.values) < MaxPoints
    /\ \E idx \in {None, Some(7)}, value \in {90, 110} :
          /\ timeseries' = TimeSeriesAppend(timeseries, idx, value)
          /\ call' = [op |-> "append", idx |-> idx]
    /\ UNCHANGED <<dataset, clock, orderbook, trade_log, order_buffer, ret,
                   inserted_at, stamped>>
    /\ UNCHANGED <<reg_vars, srv_vars, price_source, added>>

NextSeries == SeriesAppend

SpecSeries == InitSeries /\ [][NextSeries]_vars

----------------------------------------------------------------------------
(* Properties of the engine (specification Spec)                           *)

\* The arrival numbers of the orders the last tick moved from the buffer to
\* the book
NewOrderSeqs == {ret.inserted_orders[i].seq : i \in 1..Len(ret.inserted_orders)}

\* C1 -- No lookahead: a trade for an order inserted while the clock read T
\* is dated strictly after T (and never after the current time), and an order
\* that is still in the buffer has no trade.
NoLookahead ==
    /\ \A i \in 1..Len(trade_log) :
          /\ inserted_at[trade_log[i].seq] < trade_log[i].date
          /\ trade_log[i].date <= Now
    /\ \A i \in 1..Len(order_buffer) : \A j \in 1..Len(trade_log) :
          trade_log[j].seq # order_buffer[i].seq

\* An order inserted at 101, after a first tick, has traded.
NoLookaheadWitness ==
    \E i \in 1..Len(trade_log) :
        inserted_at[trade_log[i].seq] = 101 /\ trade_log[i].date = 102

\* C2 -- Every trade returned by a tick is dated clock.now() as read after
\* that tick's advance of the clock.
TradesDatedNow ==
    \A i \in 1..Len(ret.executed_trades) : ret.executed_trades[i].date = Now

\* A tick at 102 returned a trade for an order that was inserted at 100 and
\* rested through the tick at 101, together with a trade of a new order.
TradesDatedNowWitness ==
    /\ call.op = "tick"
    /\ Now = 102
    /\ \E i, j \in 1..Len(ret.executed_trades) :
          /\ inserted_at[ret.executed_trades[i].seq] = 100
          /\ inserted_at[ret.executed_trades[j].seq] = 101
          /\ ret.executed_trades[j].typ = "Sell"

\* C3 -- Sell before buy: among the trades of one tick that stem from orders
\* buffered since the previous tick, no Buy precedes a Sell.
SellBeforeBuy ==
    \A i, j \in 1..Len(ret.executed_trades) :
        (/\ i < j
         /\ ret.executed_trades[i].seq \in NewOrderSeqs
         /\ ret.executed_trades[j].seq \in NewOrderSeqs
         /\ ret.executed_trades[i].typ = "Buy")
        => ret.executed_trades[j].typ # "Sell"

\* A tick returned a Sell ahead of a Buy although the buy order arrived first.
SellBeforeBuyWitness ==
    \E i, j \in 1..Len(ret.executed_trades) :
        /\ i < j
        /\ ret.executed_trades[i].seq \in NewOrderSeqs
        /\ ret.executed_trades[j].seq \in NewOrderSeqs
        /\ ret.executed_trades[i].typ = "Sell"
        /\ ret.executed_trades[j].typ = "Buy"
        /\ ret.executed_trades[j].seq < ret.executed_trades[i].seq

\* C4 -- The sort of the buffer is stable within each group: in the orders a
\* tick inserted, sells precede buys, the sells are in arrival order and the
\* buys are in arrival order.
SortStableWithinGroups ==
    LET io == ret.inserted_orders
    IN  \A i, j \in 1..Len(io) :
            i < j =>
              /\ ~(io[i].order_type \in BuyTypes /\ io[j].order_type \in SellTypes)
              /\ (io[i].order_type \in SellTypes /\ io[j].order_type \in SellTypes
                    => io[i].seq < io[j].seq)
              /\ (io[i].order_type \in BuyTypes /\ io[j].order_type \in BuyTypes
                    => io[i].seq < io[j].seq)

\* C5 -- Monotonic order ids: every id handed out is strictly greater than
\* every id handed out before it, in the same tick or an earlier one.
MonotonicIds ==
    \A i, j \in 1..Len(stamped) : i < j => stamped[i] < stamped[j]

\* The second tick stamped orders after an earlier order had left the book.
MonotonicIdsWitness ==
    /\ call.op = "tick"
    /\ clock = 3
    /\ ret.inserted_orders # <<>>
    /\ Len(stamped) > Len(ret.inserted_orders)
    /\ Len(orderbook.inner) < Len(stamped)

\* C6 -- Conservation of orders: a tick returns as inserted_orders exactly
\* the orders the buffer held when it began, and leaves the buffer empty.
Conservation ==
    [][call'.op = "tick" =>
          /\ Len(ret'.inserted_orders) = Len(order_buffer)
          /\ {[ret'.inserted_orders[i] EXCEPT !.order_id = None] :
                  i \in 1..Len(ret'.inserted_orders)}
               = {order_buffer[i] : i \in 1..Len(order_buffer)}
          /\ order_buffer' = <<>>]_vars

\* A tick has returned two or more inserted orders.
ConservationWitness ==
    /\ call.op = "tick"
    /\ Len(ret.inserted_orders) >= 2
    /\ order_buffer = <<>>

\* C7 -- Idempotent delete: delete_order with an id no resting order carries
\* (never assigned, not assigned yet, already filled or already deleted)
\* leaves the book with its counter, the buffer, the trade log and the clock
\* as they were.
IdempotentDelete ==
    [][(call'.op = "delete_order" /\ ~call'.found) =>
          UNCHANGED <<orderbook, order_buffer, trade_log, clock, ret>>]_vars

\* delete_order missed while orders rest in the book and wait in the buffer,
\* after some stamped order had already left the book.
IdempotentDeleteWitness ==
    /\ call.op = "delete_order"
    /\ ~call.found
    /\ orderbook.inner # <<>>
    /\ order_buffer # <<>>
    /\ Len(orderbook.inner) < orderbook.last_inserted

\* C8 -- Fill price law: a Buy trade's value is its quantity times the ask
\* of the quote for its symbol at its date, a Sell trade's value its quantity
\* times the bid; the order's own price is never the execution price.
FillPriceLaw ==
    \A i \in 1..Len(trade_log) :
        LET t == trade_log[i]
            q == GetQuote(dataset, t.date, t.symbol)
        IN  /\ q # None
            /\ t.typ = "Buy" => t.value = q[1].ask * t.quantity
            /\ t.typ = "Sell" => t.value = q[1].bid * t.quantity

\* A LimitBuy priced 104 was filled at the ask 103, and a StopSell priced 104
\* at the bid 102.
FillPriceLawWitness ==
    \E i, j \in 1..Len(ret.executed_trades) :
        \E m, n \in 1..Len(ret.inserted_orders) :
            /\ ret.inserted_orders[m].seq = ret.executed_trades[i].seq
            /\ ret.inserted_orders[m].order_type = "LimitBuy"
            /\ ret.inserted_orders[m].price = Some(104)
            /\ ret.executed_trades[i].value = 103 * 25
            /\ ret.inserted_orders[n].seq = ret.executed_trades[j].seq
            /\ ret.inserted_orders[n].order_type = "StopSell"
            /\ ret.inserted_orders[n].price = Some(104)
            /\ ret.executed_trades[j].value = 102 * 25

\* C12 -- Tick on an exhausted clock is a no-op: once the clock has no next
\* date, a tick returns has_next = false and no trades, and leaves the clock,
\* the book with its id counter, the buffer and the trade log as they were.
ExhaustedTickNoOp ==
    [][(~ClockHasNext(dataset, clock) /\ call'.op \in {"tick", "tick_failed"}) =>
          /\ call'.op = "tick"
          /\ ret'.has_next = FALSE
          /\ ret'.executed_trades = <<>>
          /\ UNCHANGED <<clock, orderbook, order_buffer, trade_log>>]_vars

\* C25 -- The trade log is append-only: a tick leaves the log as the old log
\* followed by the executed_trades it returns, no other operation changes
\* it, and fetch_trades(from) gives the entries from index from onwards.
TradeLogAppendOnly ==
    [][/\ call'.op = "tick" => trade_log' = trade_log \o ret'.executed_trades
       /\ call'.op # "tick" => trade_log' = trade_log
       /\ \A from \in 0..Len(trade_log') :
             FetchTrades(trade_log', from)
                 = [i \in 1..(Len(trade_log') - from) |-> trade_log'[from + i]]]_vars

\* The log holds the trades of two ticks, those of the first tick in front.
TradeLogAppendOnlyWitness ==
    /\ call.op = "tick"
    /\ ret.executed_trades # <<>>
    /\ Len(trade_log) > Len(ret.executed_trades)
    /\ trade_log[1].date = 101
    /\ trade_log[Len(trade_log)].date = 102

----------------------------------------------------------------------------
(* Properties of one tick step: what execute_orders found and what it left *)

\* In a step of Tick: the book as execute_orders walks it, the resting orders
\* followed by the orders this tick stamped
TickBook == orderbook.inner \o ret'.inserted_orders

\* In a step of Tick: the date the book is executed at
TickDate == ClockNow(dataset, clock')

\* In a step of Tick: the trades returned for the order with that arrival number
TradesFor(seq) ==
    {k \in 1..Len(ret'.executed_trades) : ret'.executed_trades[k].seq = seq}

\* In a step of Tick: the order is in the book afterwards, unchanged
RestsAfter(order) == \E j \in 1..Len(orderbook'.inner) : orderbook'.inner[j] = order

HasQuote(order, date) == GetQuote(dataset, date, order.symbol) # None

MarketTypes == {"MarketBuy", "MarketSell"}

\* C14 -- An order whose symbol has no quote at the tick's date produces no
\* trade on that tick and stays in the book, in its position among the other
\* such orders; a market order that rested so far produces exactly one trade,
\* dated that tick, on the first tick whose date has a quote for its symbol.
NoQuoteOrderRests ==
    [][call'.op = "tick" =>
          /\ \A i \in 1..Len(TickBook) :
                ~HasQuote(TickBook[i], TickDate) =>
                    /\ TradesFor(TickBook[i].seq) = {}
                    /\ RestsAfter(TickBook[i])
          /\ SelectSeq(orderbook'.inner, LAMBDA o : ~HasQuote(o, TickDate))
               = SelectSeq(TickBook, LAMBDA o : ~HasQuote(o, TickDate))
          /\ \A i \in 1..Len(orderbook.inner) :
                (orderbook.inner[i].order_type \in MarketTypes
                   /\ HasQuote(orderbook.inner[i], TickDate)) =>
                    /\ Cardinality(TradesFor(orderbook.inner[i].seq)) = 1
                    /\ \A k \in TradesFor(orderbook.inner[i].seq) :
                          ret'.executed_trades[k].date = TickDate]_vars

\* On the dataset without quotes at 101, a market order inserted at 100 rested
\* through the tick to 101 and traded in the tick to 102, while an order for
\* the symbol without quotes still rests.
NoQuoteOrderRestsWitness ==
    /\ call.op = "tick"
    /\ dataset = "GAP"
    /\ Now = 102
    /\ Len(trade_log) = Len(ret.executed_trades)
    /\ \E k \in 1..Len(ret.executed_trades) :
          /\ inserted_at[ret.executed_trades[k].seq] = 100
          /\ ret.executed_trades[k].quantity = 100
    /\ \E j \in 1..Len(orderbook.inner) :
          /\ orderbook.inner[j].symbol = "XYZ"
          /\ inserted_at[orderbook.inner[j].seq] = 100

\* C15 -- Market orders always fill when a quote exists: every MarketBuy or
\* MarketSell in the book a tick executes, with a quote for its symbol at the
\* date, gets exactly one trade (Buy for MarketBuy, Sell for MarketSell) and
\* is not in the book afterwards.
MarketOrdersFill ==
    [][call'.op = "tick" =>
          \A i \in 1..Len(TickBook) :
              (TickBook[i].order_type \in MarketTypes /\ HasQuote(TickBook[i], TickDate)) =>
                  /\ Cardinality(TradesFor(TickBook[i].seq)) = 1
                  /\ \A k \in TradesFor(TickBook[i].seq) :
                        ret'.executed_trades[k].typ =
                            IF TickBook[i].order_type = "MarketBuy" THEN "Buy" ELSE "Sell"
                  /\ \A j \in 1..Len(orderbook'.inner) :
                        orderbook'.inner[j].seq # TickBook[i].seq]_vars

\* One tick filled a market sell and two market buys buffered since the tick
\* before: three orders, three trades.
MarketOrdersFillWitness ==
    /\ call.op = "tick"
    /\ Len(ret.inserted_orders) = 3
    /\ Len(ret.executed_trades) = 3
    /\ \A m \in 1..3 : ret.inserted_orders[m].order_type \in MarketTypes
    /\ ret.executed_trades[1].typ = "Sell"
    /\ ret.executed_trades[2].typ = "Buy"
    /\ orderbook.inner = <<>>

\* C16 -- Limit trigger rule: for a limit order with a price and a quote for
\* its symbol at the execution date, a LimitBuy gets a trade if and only if
\* its price >= ask and a LimitSell if and only if its price <= bid; the
\* trade is a Buy resp. a Sell.
LimitTriggerRule ==
    [][call'.op = "tick" =>
          \A i \in 1..Len(TickBook) :
              LET o == TickBook[i]
                  q == GetQuote(dataset, TickDate, o.symbol)
              IN  (o.order_type \in {"LimitBuy", "LimitSell"} /\ o.price # None
                     /\ q # None) =>
                      /\ (TradesFor(o.seq) # {}) <=>
                             (IF o.order_type = "LimitBuy" THEN o.price[1] >= q[1].ask
                              ELSE o.price[1] <= q[1].bid)
                      /\ \A k \in TradesFor(o.seq) :
                            ret'.executed_trades[k].typ =
                                IF o.order_type = "LimitBuy" THEN "Buy" ELSE "Sell"]_vars

\* At 101 (bid 102, ask 103) a LimitBuy priced 103 and a LimitSell priced 102
\* traded, and a LimitBuy priced 102 stayed in the book.
LimitTriggerRuleWitness ==
    /\ call.op = "tick"
    /\ Now = 101
    /\ \E m, n \in 1..Len(ret.inserted_orders) : \E k, l \in 1..Len(ret.executed_trades) :
          /\ ret.inserted_orders[m].order_type = "LimitBuy"
          /\ ret.inserted_orders[m].price = Some(103)
          /\ ret.executed_trades[k].seq = ret.inserted_orders[m].seq
          /\ ret.inserted_orders[n].order_type = "LimitSell"
          /\ ret.inserted_orders[n].price = Some(102)
          /\ ret.executed_trades[l].seq = ret.inserted_orders[n].seq
    /\ \E j \in 1..Len(orderbook.inner) :
          /\ orderbook.inner[j].order_type = "LimitBuy"
          /\ orderbook.inner[j].price = Some(102)

\* C17 -- Stop trigger rule: for a stop order with a price and a quote for
\* its symbol at the execution date, a StopBuy gets a trade if and only if
\* its price <= ask and a StopSell if and only if its price >= bid; the trade
\* is a Buy resp. a Sell.
StopTriggerRule ==
    [][call'.op = "tick" =>
          \A i \in 1..Len(TickBook) :
              LET o == TickBook[i]
                  q == GetQuote(dataset, TickDate, o.symbol)
              IN  (o.order_type \in {"StopBuy", "StopSell"} /\ o.price # None
                     /\ q # None) =>
                      /\ (TradesFor(o.seq) # {}) <=>
                             (IF o.order_type = "StopBuy" THEN o.price[1] <= q[1].ask
                              ELSE o.price[1] >= q[1].bid)
                      /\ \A k \in TradesFor(o.seq) :
                            ret'.executed_trades[k].typ =
                                IF o.order_type = "StopBuy" THEN "Buy" ELSE "Sell"]_vars

\* At 101 (bid 102, ask 103) a StopBuy priced 103 and a StopSell priced 102
\* traded, and a StopBuy priced 104 stayed in the book.
StopTriggerRuleWitness ==
    /\ call.op = "tick"
    /\ Now = 101
    /\ \E m, n \in 1..Len(ret.inserted_orders) : \E k, l \in 1..Len(ret.executed_trades) :
          /\ ret.inserted_orders[m].order_type = "StopBuy"
          /\ ret.inserted_orders[m].price = Some(103)
          /\ ret.executed_trades[k].seq = ret.inserted_orders[m].seq
          /\ ret.inserted_orders[n].order_type = "StopSell"
          /\ ret.inserted_orders[n].price = Some(102)
          /\ ret.executed_trades[l].seq = ret.inserted_orders[n].seq
    /\ \E j \in 1..Len(orderbook.inner) :
          /\ orderbook.inner[j].order_type = "StopBuy"
          /\ orderbook.inner[j].price = Some(104)

\* C18 -- No partial fills: every trade of a tick stems from exactly one order
\* of the book, its quantity is that order's shares and its value the quantity
\* times the quote's ask (Buy) or bid (Sell); the order has left the book,
\* no other trade stems from it, and every order that remains is as it was.
NoPartialFills ==
    [][call'.op = "tick" =>
          /\ \A k \in 1..Len(ret'.executed_trades) :
                LET t == ret'.executed_trades[k]
                    src == {i \in 1..Len(TickBook) : TickBook[i].seq = t.seq}
                    q == GetQuote(dataset, TickDate, t.symbol)
                IN  /\ Cardinality(src) = 1
                    /\ q # None
                    /\ \A i \in src :
                          /\ t.quantity = TickBook[i].shares
                          /\ t.symbol = TickBook[i].symbol
                          /\ ~RestsAfter(TickBook[i])
                    /\ t.value = t.quantity * (IF t.typ = "Buy" THEN q[1].ask ELSE q[1].bid)
                    /\ TradesFor(t.seq) = {k}
                    /\ \A j \in 1..Len(orderbook'.inner) : orderbook'.inner[j].seq # t.seq
          /\ \A j \in 1..Len(orderbook'.inner) :
                \E i \in 1..Len(TickBook) : orderbook'.inner[j] = TickBook[i]]_vars

\* A tick sold 25 shares at the bid 105 for a priced order that had rested and
\* sold 100 shares for a market order, while another order stayed in the book.
NoPartialFillsWitness ==
    /\ call.op = "tick"
    /\ Now = 102
    /\ orderbook.inner # <<>>
    /\ \E k, l \in 1..Len(ret.executed_trades) :
          /\ ret.executed_trades[k].typ = "Sell"
          /\ ret.executed_trades[k].quantity = 25
          /\ ret.executed_trades[k].value = 25 * 105
          /\ ret.executed_trades[k].seq \notin NewOrderSeqs
          /\ ret.executed_trades[l].typ = "Sell"
          /\ ret.executed_trades[l].quantity = 100
          /\ ret.executed_trades[l].value = 100 * 105

\* C19 -- Invalid orders rest forever: a LimitBuy, LimitSell, StopBuy or
\* StopSell without a price never gets a trade, whatever the quotes are, and
\* is still in the book after every tick.
InvalidOrdersRest ==
    [][call'.op = "tick" =>
          \A i \in 1..Len(TickBook) :
              (TickBook[i].order_type \notin MarketTypes /\ TickBook[i].price = None) =>
                  /\ TradesFor(TickBook[i].seq) = {}
                  /\ RestsAfter(TickBook[i])]_vars

\* The arrival numbers of the orders of a buffer or a book
SeqsOf(orders) == {orders[i].seq : i \in 1..Len(orders)}

\* C26 -- Every order follows Buffered -> Resting -> (Filled | Deleted):
\* insert_order puts the new order in the buffer only; only a tick takes an
\* order out of the buffer, and into the book; an order leaves the book only
\* with a trade of that tick or through a delete_order that found it; no
\* order is in the buffer and the book at once, or twice in either; an order
\* with a trade is in neither; an order that has left never comes back.
OrderStateMachine ==
    [][LET buffered == SeqsOf(order_buffer)
           resting == SeqsOf(orderbook.inner)
           buffered_after == SeqsOf(order_buffer')
           resting_after == SeqsOf(orderbook'.inner)
       IN  /\ buffered_after \cap resting_after = {}
           /\ Cardinality(buffered_after) = Len(order_buffer')
           /\ Cardinality(resting_after) = Len(orderbook'.inner)
           /\ \A s \in buffered_after \ buffered :
                 call'.op = "insert_order" /\ s = Len(inserted_at) + 1
           /\ call'.op = "insert_order" =>
                 /\ resting_after = resting
                 /\ buffered_after = buffered \cup {Len(inserted_at) + 1}
           /\ \A s \in resting_after \ resting :
                 call'.op = "tick" /\ s \in buffered
           /\ \A s \in buffered \ buffered_after :
                 call'.op = "tick" /\ (s \in resting_after \/ TradesFor(s) # {})
           /\ \A s \in resting \ resting_after :
                 \/ call'.op = "tick" /\ TradesFor(s) # {}
                 \/ call'.op = "delete_order" /\ call'.found
           /\ \A k \in 1..Len(trade_log') :
                 trade_log'[k].seq \notin buffered_after \cup resting_after]_vars

\* One order has been filled, one that rested has just been deleted, and a
\* third one waits in the buffer.
OrderStateMachineWitness ==
    /\ call.op = "delete_order"
    /\ call.found
    /\ trade_log # <<>>
    /\ orderbook.inner = <<>>
    /\ order_buffer # <<>>

\* C27 -- Every order of the inserted_orders a tick returned carries an id,
\* the id under which that very order was placed in the book: while the order
\* rests, the book holds it under that id, no other resting order has the id,
\* and delete_order with the id removes that order and nothing else.
InsertedOrdersCarryIds ==
    \A m \in 1..Len(ret.inserted_orders) :
        LET o == ret.inserted_orders[m]
        IN  /\ o.order_id # None
            /\ \A j \in 1..Len(orderbook.inner) :
                  /\ orderbook.inner[j].seq = o.seq => orderbook.inner[j] = o
                  /\ orderbook.inner[j].order_id = o.order_id
                        => orderbook.inner[j].seq = o.seq
            /\ BookDeleteOrder(orderbook, o.order_id[1]).inner
                  = SelectSeq(orderbook.inner, LAMBDA r : r.seq # o.seq)
            /\ BookDeleteOrder(orderbook, o.order_id[1]).last_inserted
                  = orderbook.last_inserted

\* A tick returned two orders that now rest behind an older order from an
\* earlier tick; the second of them is not at the front of the book.
InsertedOrdersCarryIdsWitness ==
    /\ call.op = "tick"
    /\ Len(ret.inserted_orders) = 2
    /\ Len(orderbook.inner) = 3
    /\ \A m \in 1..2 : \E j \in 2..3 : orderbook.inner[j] = ret.inserted_orders[m]

\* The position of the order with that arrival number in a book
PositionOf(book, seq) == CHOOSE i \in 1..Len(book) : book[i].seq = seq

\* C28 -- Trades are returned in book walk order: in the executed_trades of a
\* tick the trades follow the positions of their orders in the book, so the
\* trades of orders that rested before the tick come first, in the order in
\* which those orders entered the book, and the trades of the orders the tick
\* inserted come after them.
TradesInWalkOrder ==
    [][call'.op = "tick" =>
          \A k, l \in 1..Len(ret'.executed_trades) :
              k < l =>
                LET a == ret'.executed_trades[k].seq
                    b == ret'.executed_trades[l].seq
                IN  /\ PositionOf(TickBook, a) < PositionOf(TickBook, b)
                    /\ b \in SeqsOf(orderbook.inner) => a \in SeqsOf(orderbook.inner)
                    /\ (a \in SeqsOf(orderbook.inner) /\ b \in SeqsOf(orderbook.inner))
                          => PositionOf(orderbook.inner, a) < PositionOf(orderbook.inner, b)]_vars

\* A tick returned the Buy trades of two orders that had rested, in the order
\* they entered the book, and after them the Sell trade of a new order.
TradesInWalkOrderWitness ==
    /\ call.op = "tick"
    /\ Len(ret.executed_trades) = 3
    /\ ret.executed_trades[1].seq \notin NewOrderSeqs
    /\ ret.executed_trades[2].seq \notin NewOrderSeqs
    /\ ret.executed_trades[1].typ = "Buy"
    /\ ret.executed_trades[3].seq \in NewOrderSeqs
    /\ ret.executed_trades[3].typ = "Sell"

\* C29 -- Order ids within one tick follow sell-first-then-buy order, not
\* arrival order: among the orders one tick stamped, every sell-type order
\* has a smaller id than every buy-type order, and the ids increase along the
\* inserted_orders returned.
IdsSellFirst ==
    \A i, j \in 1..Len(ret.inserted_orders) :
        LET a == ret.inserted_orders[i]
            b == ret.inserted_orders[j]
        IN  /\ i < j => a.order_id[1] < b.order_id[1]
            /\ (a.order_type \in SellTypes /\ b.order_type \in BuyTypes)
                  => a.order_id[1] < b.order_id[1]

\* A buy arrived before a sell and got the greater id.
IdsSellFirstWitness ==
    \E i, j \in 1..Len(ret.inserted_orders) :
        /\ ret.inserted_orders[i].order_type \in SellTypes
        /\ ret.inserted_orders[j].order_type \in BuyTypes
        /\ ret.inserted_orders[j].seq < ret.inserted_orders[i].seq
        /\ ret.inserted_orders[i].order_id[1] < ret.inserted_orders[j].order_id[1]
        /\ ret.inserted_orders[i].order_id[1] > 0

\* C30 -- insert_order only appends to the order buffer: the book with its id
\* counter, the clock and the trade log are as before, and the buffer is the
\* old buffer followed by the new order, which carries no order id.
InsertOrderFrame ==
    [][call'.op = "insert_order" =>
          /\ UNCHANGED <<orderbook, clock, trade_log, dataset>>
          /\ Len(order_buffer') = Len(order_buffer) + 1
          /\ SubSeq(order_buffer', 1, Len(order_buffer)) = order_buffer
          /\ order_buffer'[Len(order_buffer')].order_id = None
          /\ order_buffer'[Len(order_buffer')].seq = Len(inserted_at) + 1]_vars

\* An order was appended behind another buffered order after a first tick,
\* while an older order rests in the book.
InsertOrderFrameWitness ==
    /\ call.op = "insert_order"
    /\ clock = 2
    /\ Len(order_buffer) = 2
    /\ orderbook.inner # <<>>
    /\ orderbook.last_inserted = 1

----------------------------------------------------------------------------
(* Properties of the registry (specification SpecReg)                      *)

\* The session maps one insert_order, delete_order or tick call addressed to
\* backtest a can leave behind (fetch_quotes takes &self and leaves the map)
AfterCallOn(a) ==
    {AppTick(backtests, a).backtests}
    \cup {AppInsertOrder(backtests, o @@ [seq |-> reg_orders + 1], a).backtests :
              o \in RegOrderInputs}
    \cup {AppDeleteOrder(backtests, 0, order_id, a).backtests :
              order_id \in 0..(MaxRegOrders - 1)}

\* C9 -- Session isolation: in every state the registry reaches, a call
\* addressed to backtest a leaves every other backtest b as it was (date,
\* buffer, book, trade log), and b answers its next tick and fetch_quotes as
\* it would have without the call.
SessionIsolation ==
    \A a \in BacktestIds : \A b \in DOMAIN backtests :
        a # b =>
          \A after \in AfterCallOn(a) :
              /\ b \in DOMAIN after
              /\ after[b] = backtests[b]
              /\ AppTick(after, b).ret = AppTick(backtests, b).ret
              /\ AppFetchQuotes(after, b) = AppFetchQuotes(backtests, b)

\* Two backtests on the same dataset: one has ticked and traded, the other
\* still is at its first date with an order waiting in its buffer.
SessionIsolationWitness ==
    \E a, b \in DOMAIN backtests :
        /\ a # b
        /\ backtests[a].dataset_name = backtests[b].dataset_name
        /\ backtests[a].date > backtests[b].date
        /\ backtests[a].exchange.trade_log # <<>>
        /\ backtests[b].date = GetFirstDate(backtests[b].dataset_name)
        /\ backtests[b].exchange.order_buffer # <<>>

\* C10 -- Session ids are unique: in every state the registry reaches, a
\* successful session-creating call (init, new_backtest) returns an id
\* greater than every id returned before and not present in the session map.
SessionIdsUnique ==
    \A dataset_name \in InitNames :
        \A r \in {AppInit(backtests, last, dataset_name),
                  AppNewBacktest(backtests, last, dataset_name)} :
            r.ret # None =>
              /\ r.ret[1] > max_returned
              /\ r.ret[1] \notin DOMAIN backtests

\* C11 -- Sessions persist: no registry operation removes a session, and a
\* session changes only through a tick, insert_order or delete_order call
\* addressed to it; in particular a further init or new_backtest leaves
\* every existing session with its date, buffer, book and trade log.
SessionsPersist ==
    [][\A b \in DOMAIN backtests :
          /\ b \in DOMAIN backtests'
          /\ (backtests'[b] = backtests[b] \/ backtests' \in AfterCallOn(b))]_vars

\* C13 -- A tick addressed to a session that exists never yields the outcome
\* of an unknown session: AppState::tick answers Some(result) for every id of
\* the session map, whatever the session's date.
TickOnExistingSessionSucceeds ==
    \A b \in DOMAIN backtests : AppTick(backtests, b).ret # None

\* C20 -- A tick, insert_order, delete_order, fetch_quotes or info request
\* naming a session id the registry does not hold is answered with the
\* UnknownBacktest error (HTTP 400); the registry call behind it returns None,
\* creates no session and leaves every existing session as it was.
UnknownBacktestError ==
    \A id \in BacktestIds \ DOMAIN backtests :
        /\ HandlerOutcome(backtests, id) =
               [ok |-> FALSE, err |-> "UnknownBacktest", status |-> 400]
        /\ AppTick(backtests, id) = [backtests |-> backtests, ret |-> None]
        /\ AppFetchQuotes(backtests, id) = None
        /\ \A o \in RegOrderInputs :
              AppInsertOrder(backtests, o @@ [seq |-> reg_orders + 1], id)
                  = [backtests |-> backtests, ret |-> None]
        /\ \A order_id \in 0..(MaxRegOrders - 1) :
              AppDeleteOrder(backtests, 0, order_id, id)
                  = [backtests |-> backtests, ret |-> None]

\* The registry holds a session that has traded and one with an order in its
\* buffer, and a client names an id below theirs that it does not hold.
UnknownBacktestErrorWitness ==
    \E id \in BacktestIds \ DOMAIN backtests : \E a, b \in DOMAIN backtests :
        /\ id < a
        /\ backtests[a].exchange.trade_log # <<>>
        /\ backtests[b].exchange.order_buffer # <<>>

\* C34 -- fetch_quotes returns exactly the quotes stored for the session's
\* current time, the empty list when none are stored for that time: for every
\* session of the registry, AppState::fetch_quotes answers with the list of
\* the dataset's quotes dated backtests[b].date.  (It takes &self, so no state
\* changes.)
FetchQuotesAtCurrentTime ==
    \A b \in DOMAIN backtests :
        AppFetchQuotes(backtests, b)
            = Some(SelectSeq(Quotes(backtests[b].dataset_name),
                             LAMBDA q : q.date = backtests[b].date))

\* C21 -- init against a dataset name that is not registered is answered
\* with the UnknownDataset error (HTTP 400) and leaves the registry as it
\* was: the session map is the same map, the session-id counter keeps its
\* value, and the next successful init returns the id it would have returned
\* without the failed call.
UnknownDatasetError ==
    \A dataset_name \in InitNames \ RegisteredNames :
        \A r \in {AppNewBacktest(backtests, last, dataset_name),
                  AppInit(backtests, last, dataset_name)} :
            /\ InitHandlerOutcome(r.ret) =
                   [ok |-> FALSE, err |-> "UnknownDataset", status |-> 400]
            /\ r.backtests = backtests
            /\ r.last = last
            /\ \A known \in RegisteredNames :
                  /\ AppNewBacktest(r.backtests, r.last, known).ret = Some(last + 1)
                  /\ AppInit(r.backtests, r.last, known).ret = Some(last + 1)

\* The registry holds a session opened by an earlier successful call, which
\* has traded and has an order in its buffer, the counter has moved, and a
\* client names a dataset that is not registered.
UnknownDatasetErrorWitness ==
    /\ InitNames \ RegisteredNames # {}
    /\ last = 1
    /\ max_returned = 1
    /\ 1 \in DOMAIN backtests
    /\ backtests[1].exchange.trade_log # <<>>
    /\ backtests[1].exchange.order_buffer # <<>>

----------------------------------------------------------------------------
(* Properties of the server (specifications SpecServer and SpecWorkers)    *)

\* Thread t is inside the body of a handler, past its lock()
InHandler(t) == threads[t].at \notin {"idle", "lock"}

\* The arrival numbers of the orders the engine holds or has traded
HeldSeqs ==
    SeqsOf(order_buffer) \cup SeqsOf(orderbook.inner) \cup SeqsOf(trade_log)

\* A state between whole requests: the buffered orders have no id yet, and no
\* order is in two places or twice in one
BetweenRequests ==
    /\ \A i \in 1..Len(order_buffer) : order_buffer[i].order_id = None
    /\ SeqsOf(order_buffer) \cap SeqsOf(orderbook.inner) = {}
    /\ SeqsOf(order_buffer) \cap SeqsOf(trade_log) = {}
    /\ SeqsOf(orderbook.inner) \cap SeqsOf(trade_log) = {}
    /\ Cardinality(SeqsOf(order_buffer)) = Len(order_buffer)
    /\ Cardinality(SeqsOf(orderbook.inner)) = Len(orderbook.inner)
    /\ Cardinality(SeqsOf(trade_log)) = Len(trade_log)

\* C23 -- Ticks are atomic under concurrent requests: at most one thread is
\* inside a handler body; the thread that gets the lock finds the engine
\* between whole requests, never half-ticked; when a handler returns, the
\* engine and the response are those of the whole call applied to the engine
\* the thread found at its lock(), so the requests take effect one after the
\* other in the order of their lock(); and an order posted while a tick runs
\* is stamped, returned and put in the book by a tick exactly once, or stays
\* in the buffer: no step but a delete_order takes an order away, and only
\* the insert_order of an order adds it.
TicksAtomic ==
    [][/\ \A t, u \in Threads : (InHandler(t)' /\ InHandler(u)') => t = u
       /\ \A t \in Threads :
             (threads[t].at = "lock" /\ threads'[t].at # "lock") => BetweenRequests
       /\ mutex' = Unlocked => BetweenRequests'
       /\ \A t \in Threads :
             (InHandler(t) /\ threads'[t].at = "idle") =>
               LET req == threads[t].req
                   found == threads[t].found
               IN  /\ req.op = "tick" =>
                         /\ EngineState' = UistTick(found, dataset).engine
                         /\ ret' = UistTick(found, dataset).res
                         /\ \A i \in 1..Len(ret'.inserted_orders) :
                               /\ ret'.inserted_orders[i].order_id # None
                               /\ ret'.inserted_orders[i].seq
                                      \in SeqsOf(orderbook'.inner) \cup SeqsOf(trade_log')
                   /\ req.op = "insert_order" =>
                         EngineState' = UistInsertOrder(found,
                                            req.order @@ [seq |-> Len(inserted_at) + 1])
                   /\ req.op = "delete_order" =>
                         EngineState' = UistDeleteOrder(found, req.order_id)
       /\ \A s \in HeldSeqs :
             s \in HeldSeqs' \/ (call'.op = "delete_order" /\ call'.found)
       /\ \A s \in HeldSeqs' \ HeldSeqs :
             call'.op = "insert_order" /\ s = Len(inserted_at) + 1]_vars

\* A tick is half done (clock advanced, orders stamped and still buffered,
\* trades logged, buffer not yet taken) while a thread with an insert_order
\* request waits at lock().
TicksAtomicWitness ==
    \E t, u \in Threads :
        /\ threads[t].at = "tick_take"
        /\ mutex = t
        /\ threads[t].executed_trades # <<>>
        /\ order_buffer # <<>>
        /\ threads[u].at = "lock"
        /\ threads[u].req.op = "insert_order"

\* C24 -- All request handlers of the server process operate on one shared
\* engine: whichever worker serves a request finds the same clock, the same
\* buffer, book and trade log, so an order accepted by an insert_order
\* request is in the buffer the next tick request sees and every tick request
\* advances the same clock.
WorkersShareEngine ==
    \A w, v \in Workers :
        /\ engines[w].clock = engines[v].clock
        /\ engines[w].order_buffer = engines[v].order_buffer
        /\ engines[w] = engines[v]

\* The trigger condition of a priced limit or stop order against a quote
Triggered(order, quote) ==
    CASE order.order_type = "LimitBuy" -> order.price[1] >= quote.ask
      [] order.order_type = "LimitSell" -> order.price[1] <= quote.bid
      [] order.order_type = "StopBuy" -> order.price[1] <= quote.ask
      [] order.order_type = "StopSell" -> order.price[1] >= quote.bid

\* C33 -- A limit or stop order whose condition is false rests and is
\* evaluated again on every later tick: for every priced limit or stop order
\* in the book a tick walks, those that rested through earlier ticks as well
\* as the new ones, if its symbol has a quote at the tick's date and its
\* condition holds against it, the tick returns
\* exactly one trade for it, at the ask (Buy) or the bid (Sell) of that quote,
\* and the order leaves the book; otherwise the tick returns no trade for it
\* and the order stays, unchanged and in its place among the orders that
\* stay.  So it fills on the first later tick at which its condition holds.
RestingOrdersReevaluated ==
    [][call'.op = "tick" =>
          \A i \in 1..Len(TickBook) :
              LET o == TickBook[i]
                  q == GetQuote(dataset, TickDate, o.symbol)
              IN  (o.order_type \notin MarketTypes /\ o.price # None) =>
                    IF q # None /\ Triggered(o, q[1])
                    THEN /\ Cardinality(TradesFor(o.seq)) = 1
                         /\ \A k \in TradesFor(o.seq) :
                               LET t == ret'.executed_trades[k]
                               IN  /\ t.date = TickDate
                                   /\ t.quantity = o.shares
                                   /\ o.order_type \in BuyTypes =>
                                         (t.typ = "Buy" /\ t.value = q[1].ask * o.shares)
                                   /\ o.order_type \in SellTypes =>
                                         (t.typ = "Sell" /\ t.value = q[1].bid * o.shares)
                         /\ ~RestsAfter(o)
                    ELSE /\ TradesFor(o.seq) = {}
                         /\ RestsAfter(o)
                         /\ \A j \in 1..Len(TickBook) :
                               (i < j /\ RestsAfter(TickBook[j])) =>
                                 PositionOf(orderbook'.inner, o.seq)
                                   < PositionOf(orderbook'.inner, TickBook[j].seq)]_vars

\* The tick at 102 sold, at the bid 105, a LimitSell priced 103 that was
\* inserted at 100 and had rested through the tick at 101 (bid 102), while a
\* LimitBuy inserted at 100 rests on.
RestingOrdersReevaluatedWitness ==
    /\ call.op = "tick"
    /\ Now = 102
    /\ \E k \in 1..Len(ret.executed_trades) :
          /\ inserted_at[ret.executed_trades[k].seq] = 100
          /\ ret.executed_trades[k].typ = "Sell"
          /\ ret.executed_trades[k].value = 105 * 25
    /\ \E j \in 1..Len(orderbook.inner) :
          /\ inserted_at[orderbook.inner[j].seq] = 100
          /\ orderbook.inner[j].order_type = "LimitBuy"

\* C32 -- Removal from the book is exact and stable: a delete_order that
\* finds its order leaves the book as it was without that one order; a tick
\* leaves the book it walked without exactly the orders that produced a
\* trade; in both cases the remaining orders are in their old relative order
\* with their ids, and the counter is not wound back.  A trade stems from an
\* order of the book walked, and only the buffer feeds the book, so an order
\* that was deleted produces no trade later.
RemovalExactAndStable ==
    [][/\ (call'.op = "delete_order" /\ call'.found) =>
             /\ \E p \in 1..Len(orderbook.inner) :
                   orderbook'.inner = SubSeq(orderbook.inner, 1, p - 1)
                                      \o SubSeq(orderbook.inner, p + 1, Len(orderbook.inner))
             /\ orderbook'.last_inserted = orderbook.last_inserted
       /\ call'.op = "tick" =>
             /\ orderbook'.inner = SelectSeq(TickBook, LAMBDA o : TradesFor(o.seq) = {})
             /\ \A k \in 1..Len(ret'.executed_trades) :
                   ret'.executed_trades[k].seq \in SeqsOf(TickBook)
       /\ SeqsOf(orderbook'.inner) \ SeqsOf(orderbook.inner) \subseteq SeqsOf(order_buffer)
       /\ SeqsOf(order_buffer') \ SeqsOf(order_buffer) \subseteq {Len(inserted_at) + 1}]_vars

\* delete_order took the middle one of three resting orders: the orders
\* stamped 0 and 2 rest, in that order.
RemovalExactAndStableWitness ==
    /\ call.op = "delete_order"
    /\ call.found
    /\ Len(orderbook.inner) = 2
    /\ orderbook.inner[1].order_id = Some(0)
    /\ orderbook.inner[2].order_id = Some(2)

\* The ids the book has handed out that are neither resting nor in the log
GoneFromBook(book, log) == book.last_inserted - Len(book.inner) - Len(log)

\* C38 -- Order accounting: the counter last_inserted is the number of
\* resting orders plus the number of trades in the log plus the number of
\* delete_order calls that removed an order: the difference is zero in a new
\* engine, a delete_order that finds its order raises it by one and no other
\* call changes it.  No two trades of the log stem from one order, and every
\* trade stems from an order that was stamped and rests no longer.
OrderAccounting ==
    /\ GoneFromBook(orderbook, trade_log) = 0
    /\ [][/\ GoneFromBook(orderbook', trade_log')
               = GoneFromBook(orderbook, trade_log)
                 + (IF call'.op = "delete_order" /\ call'.found THEN 1 ELSE 0)
          /\ \A i, j \in 1..Len(trade_log') :
                i # j => trade_log'[i].seq # trade_log'[j].seq
          /\ SeqsOf(trade_log') \cap SeqsOf(orderbook'.inner) = {}
          /\ Cardinality(SeqsOf(orderbook'.inner)) = Len(orderbook'.inner)
          /\ Len(stamped') = orderbook'.last_inserted]_vars

\* Three ids are out: one order rests, one was filled, one was deleted.
OrderAccountingWitness ==
    /\ orderbook.last_inserted = 3
    /\ Len(orderbook.inner) = 1
    /\ Len(trade_log) = 1
    /\ GoneFromBook(orderbook, trade_log) = 1

\* C39 -- The trade log is ordered by time: the dates of the log never
\* decrease from the first entry to the last, and the entries a tick adds
\* all carry the date the clock reads after the tick's advance, which is
\* greater than the date of every entry the log held before.
TradeLogOrderedByTime ==
    [][/\ \A i, j \in 1..Len(trade_log') :
             i < j => trade_log'[i].date <= trade_log'[j].date
       /\ call'.op = "tick" =>
             /\ \A i \in (Len(trade_log) + 1)..Len(trade_log') :
                   trade_log'[i].date = TickDate
             /\ \A i \in 1..Len(trade_log) :
                   /\ trade_log'[i] = trade_log[i]
                   /\ trade_log[i].date < TickDate]_vars

\* A tick has added two trades to a log that held one: the old entry is
\* dated 101, the two new ones 102.
TradeLogOrderedByTimeWitness ==
    /\ call.op = "tick"
    /\ Len(ret.executed_trades) = 2
    /\ Len(trade_log) = 3
    /\ trade_log[1].date = 101
    /\ trade_log[2].date = 102
    /\ trade_log[3].date = 102

----------------------------------------------------------------------------
(* Properties of the engine driven by a strategy (SpecDriver)              *)

\* The dates the clock has still to reach
Remaining == Len(ClockDates(dataset)) - clock

\* C36 -- Ticking terminates: every tick moves now() to a greater date and
\* takes one date off the clock's remaining schedule, nothing else moves
\* the clock, and the has_next a tick returns is false exactly when no date
\* remains; so the loop `while clock.has_next() { update() }` of
\* StaticWeightStrategy::run makes as many passes as dates remain and then
\* returns.
TickingTerminates ==
    /\ [][/\ call'.op = "update" =>
                /\ ClockNow(dataset, clock') > Now
                /\ Remaining' = Remaining - 1
                /\ ret'.has_next = (Remaining' > 0)
                /\ ret'.has_next = ClockHasNext(dataset, clock')
          /\ call'.op # "update" => clock' = clock
          /\ call'.op = "run_returned" => Remaining = 0]_vars
    /\ <>(call.op = "run_returned")

\* run has returned after the passes over a three-date clock: the clock
\* stands at its last date, and orders sent on the way were filled.
TickingTerminatesWitness ==
    /\ call.op = "run_returned"
    /\ Now = 102
    /\ ~ret.has_next
    /\ Len(trade_log) >= 2

----------------------------------------------------------------------------
(* Properties of the price source (SpecQuotes) and the series (SpecSeries) *)

\* C35 -- Duplicate quotes are last-writer-wins: get_quote for a symbol, at
\* the date the clock reads, returns the quote that was added last for that
\* date and symbol, and None when no quote was added for them (the date is
\* not indexed, or the symbol has no quote at it).
LastWriterWins ==
    \A symbol \in {"ABC", "XYZ"} :
        LET writes == {i \in 1..Len(added) :
                          added[i].date = Now /\ added[i].symbol = symbol}
        IN  SourceGetQuote(price_source, Now, symbol)
                = IF writes = {} THEN None
                  ELSE Some(added[CHOOSE i \in writes : \A j \in writes : j <= i])

\* C40 -- TimeSeries keeps index and values aligned: after new, with or
\* without an index, and after every append, with or without an idx, the
\* index is as long as the values; and an append without idx to a series
\* with an index puts the last index plus one at the end of the index.
IndexValuesAligned ==
    /\ [](Len(timeseries.index) = Len(timeseries.values))
    /\ [][(call'.op = "append" /\ call'.idx = None /\ timeseries.index # <<>>) =>
              timeseries'.index[Len(timeseries'.index)]
                  = timeseries.index[Len(timeseries.index)] + 1]_vars

----------------------------------------------------------------------------
(* Properties of the engine fed with client-set ids (SpecClientIds)        *)

\* C31 -- A buffered order cannot be cancelled: delete_order, for every id,
\* leaves the order buffer as it was, also when a buffered order came with
\* that id from the client; and a tick inserts every order the buffer held
\* when it began: each is returned in inserted_orders, and rests in the book
\* or has its trade in the log afterwards.
BufferedOrderNotCancellable ==
    [][/\ call'.op = "delete_order" => order_buffer' = order_buffer
       /\ call'.op = "tick" =>
             \A s \in SeqsOf(order_buffer) :
                 /\ s \in SeqsOf(ret'.inserted_orders)
                 /\ s \in SeqsOf(orderbook'.inner) \cup SeqsOf(trade_log')]_vars

\* delete_order has just removed a resting order; the buffer holds an order
\* that came from the client with an id the book has handed out and that no
\* resting order carries any more, while nothing has traded yet.
BufferedOrderNotCancellableWitness ==
    /\ call.op = "delete_order"
    /\ call.found
    /\ trade_log = <<>>
    /\ \E i \in 1..Len(order_buffer) :
          /\ order_buffer[i].order_id # None
          /\ order_buffer[i].order_id[1] < orderbook.last_inserted
          /\ \A j \in 1..Len(orderbook.inner) :
                orderbook.inner[j].order_id # order_buffer[i].order_id

\* C37 -- Book id invariant: every order in the book carries an id; the ids
\* strictly increase from the front of the queue to the back (so they are
\* pairwise distinct) and are all smaller than last_inserted; an order keeps
\* its id while it rests; and the id a tick gives an order is the counter's
\* value, whatever order_id the client had set.
BookIdInvariant ==
    [][/\ \A i \in 1..Len(orderbook'.inner) :
             /\ orderbook'.inner[i].order_id # None
             /\ orderbook'.inner[i].order_id[1] < orderbook'.last_inserted
             /\ \A j \in 1..Len(orderbook'.inner) :
                   i < j => orderbook'.inner[i].order_id[1] < orderbook'.inner[j].order_id[1]
       /\ \A i \in 1..Len(orderbook.inner) : \A j \in 1..Len(orderbook'.inner) :
             orderbook.inner[i].seq = orderbook'.inner[j].seq
                 => orderbook.inner[i].order_id = orderbook'.inner[j].order_id
       /\ call'.op = "tick" =>
             \A m \in 1..Len(ret'.inserted_orders) :
                 ret'.inserted_orders[m].order_id = Some(orderbook.last_inserted + m - 1)]_vars

\* Two orders that came with an id from the client rest in the book under
\* the ids 1 and 2 of the counter; the order stamped 0 has left the book.
BookIdInvariantWitness ==
    /\ Len(orderbook.inner) = 2
    /\ orderbook.last_inserted = 3
    /\ orderbook.inner[1].shares = 50
    /\ orderbook.inner[2].shares = 50
    /\ orderbook.inner[1].order_id = Some(1)
    /\ orderbook.inner[2].order_id = Some(2)

====
